---- MODULE Spec2Model ----
(***************************************************************************)
(* State-machine model of the AutoFFA game mode: the diplomacy ledger      *)
(* (DiplomacyManager), participants (FfaParticipant), hierarchies (Team)   *)
(* and the phase handlers of the plugin (AutoFfaPlugin).                   *)
(*                                                                         *)
(* Power-scores are JavaScript numbers in the source; here they are exact  *)
(* rationals [n, d] in lowest terms, so floating rounding is not modelled. *)
(* JavaScript Maps keep insertion order; the registry of hierarchies and   *)
(* each hierarchy's subordinates are therefore sequences.                  *)
(***************************************************************************)
EXTENDS Integers, Sequences, FiniteSets, TLC

VARIABLES
    gameTickNum,          \* the tick last handed to onEveryTick
    settings,             \* the AutoFFASettings flags (enablePowerPointsExchange is written by the plugin)
    scene,                \* number of settlements with a castle the scene holds
    participants,         \* AutoFfaPlugin.participants: the set of ids (ids are 0..n-1, Map order = id order)
    teams,                \* AutoFfaPlugin.teams: the registry, in Map order
    teamId,               \* FfaParticipant.teamId
    suzerain,             \* FfaParticipant.suzerain (NoOne = null)
    target,               \* FfaParticipant.target (NoOne = null)
    isDefeated,           \* FfaParticipant.isDefeated
    castleDead,           \* participant.castle.IsDead, owned by the engine
    powerPoints,          \* FfaParticipant.powerPoints
    damageDealtTo,        \* FfaParticipant.damageDealtTo
    castleDamageDealtTo,  \* FfaParticipant.castleDamageDealtTo
    diplomacyCache,       \* DiplomacyManager.diplomacyCache
    gameDiplomacy,        \* settlement.Diplomacy of the engine, one entry per direction
    isGameFinished,       \* AutoFfaPlugin.isGameFinished
    initialPeaceEndTick,  \* AutoFfaPlugin.initialPeaceEndTick
    initialPowerPointsExchangeSetting, \* AutoFfaPlugin.initialPowerPointsExchangeSetting
    powerExchangeTemporarilyDisabled,  \* AutoFfaPlugin.powerExchangeTemporarilyDisabled
    participantPeaceUntilTick,  \* AutoFfaPlugin.participantPeaceUntilTick of the individual-truce variant
    resources,            \* settlement.Resources of each participant: Gold, Metal, Lumber, FreePeople
    damageEvents,         \* number of damage events delivered so far (bounded)
    lastCall              \* record of the last handler run: its kind, inputs and pre-state

vars == <<gameTickNum, settings, initialPowerPointsExchangeSetting,
          powerExchangeTemporarilyDisabled, participantPeaceUntilTick, scene, participants, teams, teamId, suzerain, target,
          isDefeated, castleDead, powerPoints, damageDealtTo, castleDamageDealtTo,
          diplomacyCache, gameDiplomacy, isGameFinished, initialPeaceEndTick,
          resources, damageEvents, lastCall>>

----------------------------------------------------------------------------
(* Bounds of the model and values of the external configuration object.    *)

MaxParticipants == 3
MaxDamageEvents == 3
MaxTick == 5233
initialPowerPoints == 100
temporaryPeaceDurationTicks == 10
initialPeaceDurationTicks == 3000
vassalResourceLimit == 10
vassalPopulationLimit == 2

(* Program constants. *)
GAME_CYCLE_PERIOD == 100
FirstPhaseTick == 5000
OFFSET_MIGRATIONS == 33
OFFSET_PEACE_TREATY_CHECK == 44
OFFSET_PROMOTIONS == 66
OFFSET_DEFEATS == 88
OFFSET_TARGET_CHECK == 96
OFFSET_COALITION_CHECK == 97
OFFSET_GAME_END_CHECK == 99
PromotionMargin == 10

NoOne == -1
War == "War"
Neutral == "Neutral"
Alliance == "Alliance"
DiplomacyStatus == {War, Neutral, Alliance}
NotCached == "none"

(* The damage events the engine delivers.  deltaPoints is Damage *         *)
(* powerPointPerHp * distanceFactor * multipliers in the source, any        *)
(* positive number; here a hit on a unit is worth UnitHitPoints and a hit   *)
(* on the castle CastleHitPoints.  A hit on the castle may destroy it.      *)
UnitHitPoints == 100
CastleHitPoints == 20
DamageKinds ==
    {[castleHit |-> FALSE, lethal |-> FALSE, deltaPoints |-> UnitHitPoints],
     [castleHit |-> TRUE, lethal |-> FALSE, deltaPoints |-> CastleHitPoints],
     [castleHit |-> TRUE, lethal |-> TRUE, deltaPoints |-> CastleHitPoints]}

----------------------------------------------------------------------------
(* Exact rationals for power-scores. *)

RECURSIVE GCD(_, _)
GCD(a, b) == IF b = 0 THEN a ELSE GCD(b, a % b)

Abs(x) == IF x < 0 THEN -x ELSE x

Rat(n, d) ==
    LET g == GCD(Abs(n), d)
    IN  IF n = 0 THEN [n |-> 0, d |-> 1] ELSE [n |-> n \div g, d |-> d \div g]

RInt(i) == [n |-> i, d |-> 1]
\* sums and products are formed over the reduced denominators, which keeps the numbers small
RAdd(x, y) ==
    LET g == GCD(x.d, y.d)
    IN  Rat(x.n * (y.d \div g) + y.n * (x.d \div g), (x.d \div g) * y.d)
RSub(x, y) == RAdd(x, [n |-> -y.n, d |-> y.d])
RMul(x, y) ==
    LET g1 == GCD(Abs(x.n), y.d)
        g2 == GCD(Abs(y.n), x.d)
    IN  Rat((x.n \div g1) * (y.n \div g2), (x.d \div g2) * (y.d \div g1))
RLt(x, y) ==
    LET g == GCD(x.d, y.d)
    IN  x.n * (y.d \div g) < y.n * (x.d \div g)
RGt(x, y) == RLt(y, x)
RZero == RInt(0)

\* settings.enablePowerPointsExchange as the constructor reads it; a configuration that
\* leaves the exchange out has it off
exchangeConfigured(s) ==
    IF "enablePowerPointsExchange" \in DOMAIN s THEN s.enablePowerPointsExchange ELSE FALSE

\* AutoFFASettings.powerPointsExchangeRate
powerPointsExchangeRate == Rat(1, 20)

Max(a, b) == IF a > b THEN a ELSE b
Min(a, b) == IF a < b THEN a ELSE b

RECURSIVE SeqSum(_)
SeqSum(s) == IF s = <<>> THEN 0 ELSE Head(s) + SeqSum(Tail(s))

SeqToSet(s) == {s[i] : i \in 1..Len(s)}

SeqRemove(s, x) == SelectSeq(s, LAMBDA y : y # x)

----------------------------------------------------------------------------
(* The mutable program state as one record, threaded through the handlers. *)

World ==
    [teams |-> teams, teamId |-> teamId, suzerain |-> suzerain, target |-> target,
     isDefeated |-> isDefeated, castleDead |-> castleDead, powerPoints |-> powerPoints,
     damageDealtTo |-> damageDealtTo, castleDamageDealtTo |-> castleDamageDealtTo,
     diplomacyCache |-> diplomacyCache, gameDiplomacy |-> gameDiplomacy,
     resources |-> resources]

Commit(w) ==
    /\ teams' = w.teams
    /\ teamId' = w.teamId
    /\ suzerain' = w.suzerain
    /\ target' = w.target
    /\ isDefeated' = w.isDefeated
    /\ castleDead' = w.castleDead
    /\ powerPoints' = w.powerPoints
    /\ damageDealtTo' = w.damageDealtTo
    /\ castleDamageDealtTo' = w.castleDamageDealtTo
    /\ diplomacyCache' = w.diplomacyCache
    /\ gameDiplomacy' = w.gameDiplomacy
    /\ resources' = w.resources

----------------------------------------------------------------------------
(* DiplomacyManager *)

\* [uid1, uid2].sort().join('-'): the pair in ascending order
getCacheKey(p1, p2) == <<Min(p1, p2), Max(p1, p2)>>

\* the status getDiplomacyStatus returns
getDiplomacyStatus(w, p1, p2) ==
    IF w.diplomacyCache[getCacheKey(p1, p2)] # NotCached
    THEN w.diplomacyCache[getCacheKey(p1, p2)]
    ELSE w.gameDiplomacy[p1][p2]

\* the cache after getDiplomacyStatus (a miss stores what the engine reports for p1 about p2)
cacheAfterGet(w, p1, p2) ==
    IF w.diplomacyCache[getCacheKey(p1, p2)] # NotCached
    THEN w.diplomacyCache
    ELSE [w.diplomacyCache EXCEPT ![getCacheKey(p1, p2)] = w.gameDiplomacy[p1][p2]]

\* a plausible slip: only p1's side is declared to the engine
setDiplomacyOneWay(w, p1, p2, status) ==
    [w EXCEPT !.diplomacyCache[getCacheKey(p1, p2)] = status,
              !.gameDiplomacy[p1][p2] = status]

setDiplomacy(w, p1, p2, status) ==
    [w EXCEPT !.diplomacyCache[getCacheKey(p1, p2)] = status,
              !.gameDiplomacy = [@ EXCEPT ![p1][p2] = status, ![p2][p1] = status]]

----------------------------------------------------------------------------
(* Iteration helpers: for (const x of xs) { acc = Op(acc, x) } *)

RECURSIVE FoldSeq(_, _, _)
FoldSeq(Op(_, _), acc, s) ==
    IF s = <<>> THEN acc ELSE FoldSeq(Op, Op(acc, Head(s)), Tail(s))

\* Map.set(key): an existing key keeps its place, a new key goes last
MapSetId(s, x) == IF x \in SeqToSet(s) THEN s ELSE Append(s, x)

----------------------------------------------------------------------------
(* FfaParticipant *)

isSuzerain(w, p) == w.suzerain[p] = NoOne
isVassal(w, p) == w.suzerain[p] # NoOne

\* respawnCastle: the spiral search either places a new castle or gives up
respawnCastle(w, p, spawnOk) ==
    IF p \in spawnOk THEN [w EXCEPT !.castleDead[p] = FALSE] ELSE w

----------------------------------------------------------------------------
(* Team: a record [id, suzerain, vassals, peaceUntilTick].  Operations that *)
(* change both the Team object and the participants return [w, t].         *)

\* null where the source has Team | null
NoTeam == [id |-> NoOne, suzerain |-> NoOne, vassals |-> <<>>, peaceUntilTick |-> 0]

NewTeamObject(id, initialSuzerain) ==
    [id |-> id, suzerain |-> initialSuzerain, vassals |-> <<>>, peaceUntilTick |-> 0]

\* new Team(id, initialSuzerain, settings)
TeamConstructor(w, id, initialSuzerain) ==
    [w |-> [w EXCEPT !.teamId[initialSuzerain] = id, !.suzerain[initialSuzerain] = NoOne],
     t |-> NewTeamObject(id, initialSuzerain)]

getMembers(t) == <<t.suzerain>> \o t.vassals

getMemberCount(t) == 1 + Len(t.vassals)

\* a plausible slip: the new member is allied with the subordinates but not with the leader
updateDiplomacyOnJoinVassalsOnly(w, t, newMember) ==
    FoldSeq(LAMBDA acc, member :
                IF newMember # member THEN setDiplomacy(acc, newMember, member, Alliance) ELSE acc,
            w, t.vassals)

updateDiplomacyOnJoin(w, t, newMember) ==
    FoldSeq(LAMBDA acc, member :
                IF newMember # member THEN setDiplomacy(acc, newMember, member, Alliance) ELSE acc,
            w, getMembers(t))

addVassal(w, t, vassal, spawnOk) ==
    LET t1 == [t EXCEPT !.vassals = MapSetId(@, vassal)]
        w1 == [w EXCEPT !.teamId[vassal] = t.id,
                        !.suzerain[vassal] = t.suzerain,
                        !.target[vassal] = w.target[t.suzerain]]
        w2 == updateDiplomacyOnJoin(w1, t1, vassal)
    IN  [w |-> IF w.isDefeated[vassal] THEN respawnCastle(w2, vassal, spawnOk) ELSE w2, t |-> t1]

addSuzerainAndVassals(w, t, formerSuzerain, formerVassals, spawnOk) ==
    FoldSeq(LAMBDA acc, vassal : addVassal(acc.w, acc.t, vassal, spawnOk),
            addVassal(w, t, formerSuzerain, spawnOk), formerVassals)

removeVassal(w, t, vassal) ==
    IF vassal \in SeqToSet(t.vassals)
    THEN [w |-> [w EXCEPT !.suzerain[vassal] = NoOne],
          t |-> [t EXCEPT !.vassals = SeqRemove(@, vassal)]]
    ELSE [w |-> w, t |-> t]

changeSuzerain(w, t, newSuzerain) ==
    LET oldSuzerain == t.suzerain
        vassals1 == MapSetId(SeqRemove(t.vassals, newSuzerain), oldSuzerain)
        t1 == [t EXCEPT !.vassals = vassals1, !.suzerain = newSuzerain]
        w1 == [w EXCEPT !.suzerain[newSuzerain] = NoOne]
        w2 == FoldSeq(LAMBDA acc, vassal :
                          [acc EXCEPT !.suzerain[vassal] = newSuzerain,
                                      !.target[vassal] = acc.target[newSuzerain]],
                      w1, vassals1)
    IN  [w |-> w2, t |-> t1]

\* members.reduce((prev, current) => prev.powerPoints > current.powerPoints ? prev : current)
mostPowerfulMember(w, t) ==
    FoldSeq(LAMBDA prev, current :
                IF RGt(w.powerPoints[prev], w.powerPoints[current]) THEN prev ELSE current,
            t.suzerain, t.vassals)

\* the test that guards changeSuzerain
promotionDue(w, t) ==
    /\ mostPowerfulMember(w, t) # t.suzerain
    /\ RLt(RAdd(w.powerPoints[t.suzerain], RInt(PromotionMargin)),
           w.powerPoints[mostPowerfulMember(w, t)])

promoteNewSuzerainIfNeeded(w, t) ==
    IF promotionDue(w, t)
    THEN LET r == changeSuzerain(w, t, mostPowerfulMember(w, t))
         IN  [w |-> r.w, t |-> r.t, changed |-> TRUE]
    ELSE [w |-> w, t |-> t, changed |-> FALSE]

\* Math.max(1, member.damageDealtTo.get(defeated.id) || 0)
damageCredit(w, member, defeated) == Max(1, w.damageDealtTo[member][defeated])

\* a plausible slip: the spoils are credited without being taken from the defeated
shareSpoilsNotDeducted(w, t, defeated, takenPercentage) ==
    LET distributedPower == RMul(w.powerPoints[defeated], takenPercentage)
        members == getMembers(t)
        totalDamage == SeqSum([i \in 1..Len(members) |-> Max(1, w.damageDealtTo[members[i]][defeated])])
    IN  FoldSeq(LAMBDA acc, member :
                    [acc EXCEPT !.powerPoints[member] =
                                    RAdd(@, RMul(distributedPower,
                                                 Rat(Max(1, acc.damageDealtTo[member][defeated]), totalDamage))),
                                !.damageDealtTo[member][defeated] = 0,
                                !.castleDamageDealtTo[member][defeated] = 0],
                w, members)

shareSpoils(w, t, defeated, takenPercentage) ==
    LET distributedPower == RMul(w.powerPoints[defeated], takenPercentage)
        w1 == [w EXCEPT !.powerPoints[defeated] = RSub(@, distributedPower)]
        members == getMembers(t)
        totalDamage == SeqSum([i \in 1..Len(members) |-> damageCredit(w1, members[i], defeated)])
    IN  FoldSeq(LAMBDA acc, member :
                    LET gain == RMul(distributedPower,
                                     Rat(damageCredit(acc, member, defeated), totalDamage))
                    IN  [acc EXCEPT !.powerPoints[member] = RAdd(@, gain),
                                    !.damageDealtTo[member][defeated] = 0,
                                    !.castleDamageDealtTo[member][defeated] = 0],
                w1, members)

setDiplomacyWithAll(w, t, otherTeams, status) ==
    FoldSeq(LAMBDA acc, otherTeam :
                IF t.id = otherTeam.id THEN acc
                ELSE FoldSeq(LAMBDA acc2, member :
                                 FoldSeq(LAMBDA acc3, otherMember :
                                             setDiplomacy(acc3, member, otherMember, status),
                                         acc2, getMembers(otherTeam)),
                             acc, getMembers(t)),
            w, otherTeams)

setPeaceStatusWithAll(w, t, allTeams) == setDiplomacyWithAll(w, t, allTeams, Neutral)

setWarStatusWithAll(w, t, allTeams) == setDiplomacyWithAll(w, t, allTeams, War)

----------------------------------------------------------------------------
(* AutoFfaPlugin.teams: Map<number, Team> *)

HasTeam(reg, id) == \E i \in 1..Len(reg) : reg[i].id = id

TeamsGet(reg, id) == reg[CHOOSE i \in 1..Len(reg) : reg[i].id = id]

\* teams.set(t.id, t): an existing key is replaced in place, a new key goes last
TeamsSet(reg, t) ==
    IF HasTeam(reg, t.id)
    THEN [i \in 1..Len(reg) |-> IF reg[i].id = t.id THEN t ELSE reg[i]]
    ELSE Append(reg, t)

TeamsDelete(reg, id) == SelectSeq(reg, LAMBDA t : t.id # id)

\* the participants in Map order (ids ascending)
RECURSIVE IdSeq(_, _)
IdSeq(from, to) == IF from > to THEN <<>> ELSE <<from>> \o IdSeq(from + 1, to)

ParticipantSeq == IdSeq(0, Cardinality(participants) - 1)

----------------------------------------------------------------------------
(* Rival pairing: checkAndReassignTargets, assignNewTargetForTeam *)

\* targetTeam is a Team record, or NoTeam for null
assignNewTargetForTeam(w, team, targetTeam) ==
    LET newTarget == IF targetTeam = NoTeam THEN NoOne ELSE targetTeam.suzerain
        oldTarget == w.target[team.suzerain]
    IN  IF oldTarget = newTarget THEN w
        ELSE FoldSeq(LAMBDA acc, member : [acc EXCEPT !.target[member] = newTarget],
                     w, getMembers(team))

Swap(s, i, j) == [s EXCEPT ![i] = s[j], ![j] = s[i]]

\* for (let i = length - 1; i > 0; i--) { j = RandomNumber(0, i); swap(i, j) }
RECURSIVE ShuffleFrom(_, _, _)
ShuffleFrom(s, i, rnd) ==
    IF i < 1 THEN s ELSE ShuffleFrom(Swap(s, i + 1, rnd[i] + 1), i - 1, rnd)

\* a plausible slip: only the first of the two assignments is made
RECURSIVE PairUpOneWay(_, _)
PairUpOneWay(w, s) ==
    IF Len(s) < 2 THEN w
    ELSE PairUpOneWay(assignNewTargetForTeam(w, s[Len(s)], s[Len(s) - 1]), SubSeq(s, 1, Len(s) - 2))

\* while (length >= 2) { teamA = pop(); teamB = pop(); assign(A, B); assign(B, A) }
RECURSIVE PairUp(_, _)
PairUp(w, s) ==
    IF Len(s) < 2 THEN w
    ELSE LET teamA == s[Len(s)]
             teamB == s[Len(s) - 1]
         IN  PairUp(assignNewTargetForTeam(assignNewTargetForTeam(w, teamA, teamB), teamB, teamA),
                    SubSeq(s, 1, Len(s) - 2))

\* the teams that are not under truce at this tick
teamsToPair(w, tick) == SelectSeq(w.teams, LAMBDA t : t.peaceUntilTick <= tick)

\* teamB exists among the teams to pair and targets teamA
isStablePair(w, tick, teamA) ==
    LET targetParticipantB == w.target[teamA.suzerain]
        pairable == teamsToPair(w, tick)
    IN  /\ targetParticipantB # NoOne
        /\ HasTeam(pairable, w.teamId[targetParticipantB])
        /\ LET teamB == TeamsGet(pairable, w.teamId[targetParticipantB])
           IN  /\ w.target[teamB.suzerain] # NoOne
               /\ w.teamId[w.target[teamB.suzerain]] = teamA.id

\* a plausible slip: no pair is ever recognised as stable, every pass reshuffles all teams
stablePairIdsNone(w, tick) == {}

stablePairIds(w, tick) ==
    FoldSeq(LAMBDA processedIds, teamA :
                IF teamA.id \in processedIds THEN processedIds
                ELSE IF isStablePair(w, tick, teamA)
                     THEN processedIds \cup {teamA.id, w.teamId[w.target[teamA.suzerain]]}
                     ELSE processedIds,
            {}, teamsToPair(w, tick))

\* the teams outside truce that are not part of a stable pair
teamsToReassign(w, tick) ==
    SelectSeq(teamsToPair(w, tick), LAMBDA t : t.id \notin stablePairIds(w, tick))

checkAndReassignTargets(w, tick, rnd) ==
    IF ~settings.enableTargetSystem THEN w
    ELSE
    LET allTeams == w.teams
        toReassign == teamsToReassign(w, tick)
        w1 == FoldSeq(LAMBDA acc, team :
                          IF team.peaceUntilTick > tick /\ acc.target[team.suzerain] # NoOne
                          THEN assignNewTargetForTeam(acc, team, NoTeam) ELSE acc,
                      w, allTeams)
        w2 == FoldSeq(LAMBDA acc, team : assignNewTargetForTeam(acc, team, NoTeam),
                      w1, toReassign)
    IN  IF Len(toReassign) = 0 THEN w1
        ELSE PairUp(w2, ShuffleFrom(toReassign, Len(toReassign) - 1, rnd))

\* the answers randomizer.RandomNumber(0, i) can give for i = 1 .. n-1
RandomAnswers(n) == {rnd \in [1..(n - 1) -> 0..(n - 1)] : \A i \in 1..(n - 1) : rnd[i] <= i}

\* the answers the shuffle of checkAndReassignTargets(w, tick) asks for
ShuffleAnswers(w, tick) ==
    RandomAnswers(IF settings.enableTargetSystem THEN Len(teamsToReassign(w, tick)) ELSE 0)

----------------------------------------------------------------------------
(* Defeats and migrations *)

checkForDefeatedParticipants(w) ==
    FoldSeq(LAMBDA acc, participant :
                IF ~acc.isDefeated[participant] /\ acc.castleDead[participant]
                THEN [acc EXCEPT !.isDefeated[participant] = TRUE] ELSE acc,
            w, ParticipantSeq)

\* the first participant outside defeated's team with the largest positive castle-damage credit
findWinnerFor(w, defeated) ==
    FoldSeq(LAMBDA acc, participant :
                IF w.teamId[participant] = w.teamId[defeated] THEN acc
                ELSE IF w.castleDamageDealtTo[participant][defeated] > acc.maxDamage
                     THEN [winner |-> participant,
                           maxDamage |-> w.castleDamageDealtTo[participant][defeated]]
                     ELSE acc,
            [winner |-> NoOne, maxDamage |-> 0], ParticipantSeq).winner

startTemporaryPeace(w, team, tick) ==
    [w |-> setPeaceStatusWithAll(w, team, w.teams),
     t |-> [team EXCEPT !.peaceUntilTick = tick + settings.temporaryPeaceDurationTicks]]

(* The three branches of one loop iteration.  loserTeam and winnerTeam are  *)
(* the Team objects fetched from the registry; each branch returns the new  *)
(* world, the winnerTeam object and whether the registry still holds that   *)
(* object under its id (a released vassal's new team may have replaced it). *)

weakenSnowballBranch(w, loserTeam, winnerTeam, defeated, spawnOk) ==
    LET w1 == shareSpoils(w, winnerTeam, defeated, Rat(1, 5))
        a == addVassal(w1, winnerTeam, defeated, spawnOk)
        w2 == [a.w EXCEPT !.teams = TeamsSet(@, a.t)]
        rel == FoldSeq(LAMBDA acc, vassal :
                           LET c == TeamConstructor(acc.w, vassal, vassal)
                               reg == TeamsSet(acc.w.teams, c.t)
                               allOtherTeams == SelectSeq(reg, LAMBDA t : t.id # c.t.id)
                           IN  [w |-> setWarStatusWithAll([c.w EXCEPT !.teams = reg], c.t, allOtherTeams),
                                live |-> acc.live /\ vassal # winnerTeam.id],
                       [w |-> w2, live |-> TRUE], loserTeam.vassals)
    IN  [w |-> [rel.w EXCEPT !.teams = TeamsDelete(@, loserTeam.id),
                             !.isDefeated[defeated] = FALSE],
         wt |-> a.t, live |-> rel.live]

fullAbsorptionBranch(w, loserTeam, winnerTeam, defeated, spawnOk) ==
    LET allLosers == getMembers(loserTeam)
        w1 == FoldSeq(LAMBDA acc, member :
                          shareSpoils(acc, winnerTeam, member,
                                      IF isSuzerain(acc, member) THEN Rat(1, 5) ELSE Rat(1, 10)),
                      w, allLosers)
        a == addSuzerainAndVassals(w1, winnerTeam, loserTeam.suzerain, loserTeam.vassals, spawnOk)
        w2 == [a.w EXCEPT !.teams = TeamsDelete(TeamsSet(@, a.t), loserTeam.id)]
    IN  [w |-> FoldSeq(LAMBDA acc, member : [acc EXCEPT !.isDefeated[member] = FALSE], w2, allLosers),
         wt |-> a.t, live |-> TRUE]

\* a plausible slip: the captured subordinate is not removed from the hierarchy it leaves
vassalBranchNotRemoved(w, loserTeam, winnerTeam, defeated, spawnOk) ==
    LET w1 == shareSpoils(w, winnerTeam, defeated, Rat(1, 10))
        a == addVassal(w1, winnerTeam, defeated, spawnOk)
    IN  [w |-> [a.w EXCEPT !.teams = TeamsSet(@, a.t),
                           !.isDefeated[defeated] = FALSE],
         wt |-> a.t, live |-> TRUE]

vassalBranch(w, loserTeam, winnerTeam, defeated, spawnOk) ==
    LET w1 == shareSpoils(w, winnerTeam, defeated, Rat(1, 10))
        r == removeVassal(w1, loserTeam, defeated)
        a == addVassal(r.w, winnerTeam, defeated, spawnOk)
    IN  [w |-> [a.w EXCEPT !.teams = TeamsSet(TeamsSet(@, r.t), a.t),
                           !.isDefeated[defeated] = FALSE],
         wt |-> a.t, live |-> TRUE]

\* who is moved and has spoils taken in one iteration (bookkeeping for the properties)
movedBy(w, loserTeam, defeated) ==
    IF isSuzerain(w, defeated) /\ ~settings.weakenSnowballEffect
    THEN getMembers(loserTeam) ELSE <<defeated>>

alreadyProcessed(w, defeated) == ~w.isDefeated[defeated]

\* the branch taken for a defeated leader or subordinate
migrationBranch(w, loserTeam, winnerTeam, defeated, spawnOk) ==
    IF isSuzerain(w, defeated)
    THEN IF settings.weakenSnowballEffect
         THEN weakenSnowballBranch(w, loserTeam, winnerTeam, defeated, spawnOk)
         ELSE fullAbsorptionBranch(w, loserTeam, winnerTeam, defeated, spawnOk)
    ELSE vassalBranch(w, loserTeam, winnerTeam, defeated, spawnOk)

\* the end of an iteration that moved someone: the truce p of the winner's team is
\* stored if the registry still holds that Team object (live), and the move is counted
recordMigration(acc, live, p, moved) ==
    [acc EXCEPT !.w = IF live THEN [p.w EXCEPT !.teams = TeamsSet(@, p.t)] ELSE p.w,
                !.migrated = FoldSeq(LAMBDA f, m : [f EXCEPT ![m] = @ + 1], @, moved)]

\* this.startTemporaryPeace(winnerTeam, gameTickNum) after the branch b
concludeMigration(acc, b, moved, tick) ==
    recordMigration(acc, b.live, startTemporaryPeace(b.w, b.wt, tick), moved)

\* the iteration once both Team objects are fetched
migrateBetween(acc, loserTeam, winnerTeam, defeated, tick, spawnOk) ==
    concludeMigration(acc, migrationBranch(acc.w, loserTeam, winnerTeam, defeated, spawnOk),
                      movedBy(acc.w, loserTeam, defeated), tick)

\* the iteration once findWinnerFor has answered
migrateTo(acc, defeated, winner, tick, spawnOk) ==
    IF winner = NoOne
    THEN [acc EXCEPT !.w = [respawnCastle(acc.w, defeated, spawnOk) EXCEPT !.isDefeated[defeated] = FALSE],
                     !.restored = [@ EXCEPT ![defeated] = @ + 1]]
    ELSE IF ~HasTeam(acc.w.teams, acc.w.teamId[winner]) THEN acc
    ELSE migrateBetween(acc, TeamsGet(acc.w.teams, acc.w.teamId[defeated]),
                        TeamsGet(acc.w.teams, acc.w.teamId[winner]), defeated, tick, spawnOk)

\* a plausible slip: a participant whose hierarchy is not registered is restored in place
migrateOneRestoresUnregistered(acc, defeated, tick, spawnOk) ==
    IF alreadyProcessed(acc.w, defeated) THEN acc
    ELSE IF ~HasTeam(acc.w.teams, acc.w.teamId[defeated])
         THEN migrateTo(acc, defeated, NoOne, tick, spawnOk)
         ELSE migrateTo(acc, defeated, findWinnerFor(acc.w, defeated), tick, spawnOk)

\* one iteration of the loop over the snapshot of flagged participants
migrateOne(acc, defeated, tick, spawnOk) ==
    IF alreadyProcessed(acc.w, defeated) THEN acc
    ELSE IF ~HasTeam(acc.w.teams, acc.w.teamId[defeated]) THEN acc
    ELSE migrateTo(acc, defeated, findWinnerFor(acc.w, defeated), tick, spawnOk)

\* the loop of processTeamMigrations, with the per-participant counts of what it did
migrationLoop(w, tick, spawnOk) ==
    LET defeatedParticipants == SelectSeq(ParticipantSeq, LAMBDA p : w.isDefeated[p])
    IN  FoldSeq(LAMBDA acc, defeated : migrateOne(acc, defeated, tick, spawnOk),
                [w |-> w, migrated |-> [p \in participants |-> 0],
                 restored |-> [p \in participants |-> 0]],
                defeatedParticipants)

\* a plausible slip: the pass ends with the loop and the rivals are not paired again
afterMigrationLoopUnpaired(w, loop, tick, rnd) == loop.w

\* what follows the loop: the rivals are paired again if anyone was flagged
afterMigrationLoop(w, loop, tick, rnd) ==
    IF \E p \in participants : w.isDefeated[p]
    THEN checkAndReassignTargets(loop.w, tick, rnd)
    ELSE w

processTeamMigrations(w, tick, spawnOk, rnd) ==
    afterMigrationLoop(w, migrationLoop(w, tick, spawnOk), tick, rnd)

----------------------------------------------------------------------------
(* Promotions, truces, coalitions, game end *)

\* the loop of promoteNewSuzerains: every registered team is offered a promotion
promotionLoop(w) ==
    FoldSeq(LAMBDA acc, team :
                LET r == promoteNewSuzerainIfNeeded(acc.w, team)
                IN  [w |-> [r.w EXCEPT !.teams = TeamsSet(@, r.t)],
                     promotionsCount |-> acc.promotionsCount + (IF r.changed THEN 1 ELSE 0)],
            [w |-> w, promotionsCount |-> 0], w.teams)

\* the registry part of promoteNewSuzerains; what it does to the exchange switch is
\* restoreExchange and suppressExchange, which change nothing while the exchange is
\* configured off
promoteNewSuzerains(w, tick, rnd) ==
    LET r == promotionLoop(w)
    IN  IF r.promotionsCount > 0 THEN checkAndReassignTargets(r.w, tick, rnd) ELSE r.w

\* a plausible slip: war is declared but the deadline stays, so every later pass declares it again
managePeaceTreatiesKeepsDeadline(w, tick) ==
    LET allTeams == w.teams
    IN  FoldSeq(LAMBDA acc, team :
                    IF team.peaceUntilTick > 0 /\ tick > team.peaceUntilTick
                    THEN setWarStatusWithAll(acc, team, allTeams)
                    ELSE acc,
                w, allTeams)

managePeaceTreaties(w, tick) ==
    LET allTeams == w.teams
    IN  FoldSeq(LAMBDA acc, team :
                    IF team.peaceUntilTick > 0 /\ tick > team.peaceUntilTick
                    THEN LET ended == [team EXCEPT !.peaceUntilTick = 0]
                         IN  setWarStatusWithAll([acc EXCEPT !.teams = TeamsSet(@, ended)], ended, allTeams)
                    ELSE acc,
                w, allTeams)

\* the first registered team holding at least half of the participants, or NoTeam
findDominantTeam(w) ==
    LET dominant == SelectSeq(w.teams, LAMBDA t : 2 * getMemberCount(t) >= Cardinality(participants))
    IN  IF dominant = <<>> THEN NoTeam ELSE Head(dominant)

\* otherTeams.reduce((prev, current) => prev.suzerain.powerPoints > current.suzerain.powerPoints ? prev : current)
coalitionLeader(w, otherTeams) ==
    FoldSeq(LAMBDA prev, current :
                IF RGt(w.powerPoints[prev.suzerain], w.powerPoints[current.suzerain]) THEN prev ELSE current,
            Head(otherTeams), Tail(otherTeams))

manageCoalitions(w, spawnOk) ==
    LET dominantTeam == findDominantTeam(w)
        otherTeams == SelectSeq(w.teams, LAMBDA t : t.id # dominantTeam.id)
    IN  IF ~settings.enableCoalitionsAgainstLeader \/ dominantTeam = NoTeam THEN w
        ELSE IF Len(otherTeams) <= 1 THEN w
        ELSE LET leader0 == coalitionLeader(w, otherTeams)
                 teamsToMerge == SelectSeq(otherTeams, LAMBDA t : t.id # leader0.id)
                 merged == FoldSeq(LAMBDA acc, teamToMerge :
                                       LET a == addSuzerainAndVassals(acc.w, acc.t, teamToMerge.suzerain,
                                                                      teamToMerge.vassals, spawnOk)
                                       IN  [w |-> [a.w EXCEPT !.teams = TeamsDelete(TeamsSet(@, a.t), teamToMerge.id)],
                                            t |-> a.t],
                                   [w |-> w, t |-> leader0], teamsToMerge)
                 w1 == setWarStatusWithAll(merged.w, merged.t, <<dominantTeam>>)
             IN  assignNewTargetForTeam(assignNewTargetForTeam(w1, merged.t, dominantTeam),
                                        dominantTeam, merged.t)

\* whether checkForGameEnd declares the game finished
gameEnds(w) == Len(w.teams) = 1

----------------------------------------------------------------------------
(* Start-up *)

PairKeys(P) == {k \in P \X P : k[1] <= k[2]}

NoResources == [Gold |-> 0, Metal |-> 0, Lumber |-> 0, FreePeople |-> 0]

\* the state of a freshly constructed plugin for the participants P (holdings are
\* the engine's; only payTribute touches them in this model)
FreshWorld(P) ==
    [teams |-> <<>>, teamId |-> [p \in P |-> NoOne], suzerain |-> [p \in P |-> NoOne],
     target |-> [p \in P |-> NoOne], isDefeated |-> [p \in P |-> FALSE],
     castleDead |-> [p \in P |-> FALSE], powerPoints |-> [p \in P |-> RInt(initialPowerPoints)],
     damageDealtTo |-> [p \in P |-> [q \in P |-> 0]],
     castleDamageDealtTo |-> [p \in P |-> [q \in P |-> 0]],
     diplomacyCache |-> [k \in PairKeys(P) |-> NotCached],
     gameDiplomacy |-> [p \in P |-> [q \in P |-> Neutral]],
     resources |-> [p \in P |-> NoResources]]

\* one participant and one team per settlement, ids 0 .. n-1
setupParticipantsAndTeams(n) ==
    FoldSeq(LAMBDA acc, id :
                LET c == TeamConstructor(acc, id, id)
                IN  [c.w EXCEPT !.teams = TeamsSet(@, c.t)],
            FreshWorld(0..(n - 1)), IdSeq(0, n - 1))

\* for i < j: setDiplomacy(all[i], all[j], status)
setDiplomacyAmongAll(w, all, status) ==
    FoldSeq(LAMBDA acc, i :
                FoldSeq(LAMBDA acc2, j :
                            IF i < j THEN setDiplomacy(acc2, all[i], all[j], status) ELSE acc2,
                        acc, IdSeq(1, Len(all))),
            w, IdSeq(1, Len(all)))

setInitialDiplomacy(w, all) ==
    setDiplomacyAmongAll(w, all, IF settings.enableInitialPeacePeriod THEN Neutral ELSE War)

endInitialPeace(w) ==
    LET all == ParticipantSeq
    IN  FoldSeq(LAMBDA acc, i :
                    FoldSeq(LAMBDA acc2, j :
                                IF i < j /\ acc2.teamId[all[i]] # acc2.teamId[all[j]]
                                THEN setDiplomacy(acc2, all[i], all[j], War) ELSE acc2,
                            acc, IdSeq(1, Len(all))),
                w, IdSeq(1, Len(all)))

initialize(n, tick, rnd) ==
    checkAndReassignTargets(setInitialDiplomacy(setupParticipantsAndTeams(n), IdSeq(0, n - 1)), tick, rnd)

\* the damage handler when the two owners are at war
increaseAttackerPower(w, attacker, victim, castleHit, deltaPoints) ==
    [w EXCEPT !.powerPoints[attacker] = RAdd(@, RInt(deltaPoints)),
              !.damageDealtTo[attacker][victim] = @ + deltaPoints,
              !.castleDamageDealtTo[attacker][victim] = IF castleHit THEN @ + deltaPoints ELSE @]

onUnitCauseDamage(w, attacker, victim, castleHit, deltaPoints) ==
    LET w1 == [w EXCEPT !.diplomacyCache = cacheAfterGet(w, attacker, victim)]
    IN  IF getDiplomacyStatus(w, attacker, victim) = War
        THEN increaseAttackerPower(w1, attacker, victim, castleHit, deltaPoints)
        ELSE w1

----------------------------------------------------------------------------
(* onEveryTick.  Ticks at which onEveryTick changes nothing that is modelled *)
(* are skipped: gameTickNum moves straight to the next tick that starts the  *)
(* game, ends the initial peace or runs one of the modelled phases.          *)

Offsets == {OFFSET_MIGRATIONS, OFFSET_PEACE_TREATY_CHECK, OFFSET_PROMOTIONS, OFFSET_DEFEATS,
            OFFSET_TARGET_CHECK, OFFSET_COALITION_CHECK, OFFSET_GAME_END_CHECK}

IsPhaseTick(t) == t >= FirstPhaseTick /\ (t % GAME_CYCLE_PERIOD) \in Offsets

MinOf(S) == CHOOSE x \in S : \A y \in S : x <= y

NextPhaseTick(t) ==
    LET from == Max(t + 1, FirstPhaseTick)
        offset == from % GAME_CYCLE_PERIOD
        later == {o \in Offsets : o >= offset}
    IN  IF later = {} THEN from - offset + GAME_CYCLE_PERIOD + MinOf(Offsets)
        ELSE from - offset + MinOf(later)

peaceCheckFires(t) == initialPeaceEndTick > 0 /\ t >= initialPeaceEndTick

NextStop ==
    IF gameTickNum < 1 THEN 1
    ELSE IF initialPeaceEndTick > 0
         THEN Min(Max(gameTickNum + 1, initialPeaceEndTick), NextPhaseTick(gameTickNum))
         ELSE NextPhaseTick(gameTickNum)

\* the part of onEveryTick that precedes the phase switch
afterPeaceCheck(t) == IF peaceCheckFires(t) THEN endInitialPeace(World) ELSE World

Advance(t) ==
    /\ gameTickNum' = t
    /\ initialPeaceEndTick' = IF peaceCheckFires(t) THEN 0 ELSE initialPeaceEndTick
    /\ UNCHANGED <<settings, initialPowerPointsExchangeSetting,
                   powerExchangeTemporarilyDisabled, participantPeaceUntilTick, scene, participants, damageEvents>>

PhaseAt(offset) ==
    /\ ~isGameFinished
    /\ gameTickNum >= 1
    /\ NextStop <= MaxTick
    /\ NextStop >= FirstPhaseTick
    /\ NextStop % GAME_CYCLE_PERIOD = offset

Call(kind, pre, mid, paired) == [kind |-> kind, pre |-> pre, mid |-> mid, paired |-> paired]

Init ==
    /\ gameTickNum = 0
    /\ settings \in [enableInitialPeacePeriod : BOOLEAN, weakenSnowballEffect : BOOLEAN,
                     enableTargetSystem : BOOLEAN, enableCoalitionsAgainstLeader : {TRUE},
                     temporaryPeaceDurationTicks : {temporaryPeaceDurationTicks}]
    /\ scene = MaxParticipants
    /\ participants = {}
    /\ teams = <<>>
    /\ teamId = <<>>
    /\ suzerain = <<>>
    /\ target = <<>>
    /\ isDefeated = <<>>
    /\ castleDead = <<>>
    /\ powerPoints = <<>>
    /\ damageDealtTo = <<>>
    /\ castleDamageDealtTo = <<>>
    /\ diplomacyCache = <<>>
    /\ gameDiplomacy = <<>>
    /\ resources = <<>>
    /\ isGameFinished = FALSE
    /\ initialPowerPointsExchangeSetting = exchangeConfigured(settings)
    /\ powerExchangeTemporarilyDisabled = FALSE
    /\ participantPeaceUntilTick = <<>>
    /\ initialPeaceEndTick = 0
    /\ damageEvents = 0
    /\ lastCall = [kind |-> "none"]

TickInitialize ==
    /\ ~isGameFinished
    /\ gameTickNum = 0
    /\ LET w0 == setInitialDiplomacy(setupParticipantsAndTeams(scene), IdSeq(0, scene - 1))
       IN  \E rnd \in ShuffleAnswers(w0, 1) :
               /\ Commit(checkAndReassignTargets(w0, 1, rnd))
               /\ lastCall' = Call("initialize", w0, w0, TRUE)
    /\ gameTickNum' = 1
    /\ participants' = 0..(scene - 1)
    /\ initialPeaceEndTick' = IF settings.enableInitialPeacePeriod THEN initialPeaceDurationTicks ELSE 0
    /\ UNCHANGED <<settings, initialPowerPointsExchangeSetting,
                   powerExchangeTemporarilyDisabled, participantPeaceUntilTick, scene, isGameFinished, damageEvents>>

TickEndInitialPeace ==
    /\ ~isGameFinished
    /\ gameTickNum >= 1
    /\ NextStop <= MaxTick
    /\ ~IsPhaseTick(NextStop)
    /\ Commit(afterPeaceCheck(NextStop))
    /\ lastCall' = Call("endInitialPeace", World, World, FALSE)
    /\ Advance(NextStop)
    /\ UNCHANGED isGameFinished

\* processTeamMigrations from the world pre, its loop having produced loop
MigrationsFrom(pre, loop, tick) ==
    \E rnd \in ShuffleAnswers(loop.w, tick) :
        /\ Commit(afterMigrationLoop(pre, loop, tick, rnd))
        /\ lastCall' = [kind |-> "migrations", pre |-> pre, mid |-> loop.w,
                        paired |-> \E p \in participants : pre.isDefeated[p],
                        migrated |-> loop.migrated, restored |-> loop.restored]

MigrationsAt(pre, tick) ==
    \E spawnOk \in SUBSET {p \in participants : isDefeated[p]} :
        MigrationsFrom(pre, migrationLoop(pre, tick, spawnOk), tick)

TickMigrations ==
    /\ PhaseAt(OFFSET_MIGRATIONS)
    /\ MigrationsAt(afterPeaceCheck(NextStop), NextStop)
    /\ Advance(NextStop)
    /\ UNCHANGED isGameFinished

TickPeaceTreaties ==
    /\ PhaseAt(OFFSET_PEACE_TREATY_CHECK)
    /\ LET pre == afterPeaceCheck(NextStop)
       IN  /\ Commit(managePeaceTreaties(pre, NextStop))
           /\ lastCall' = Call("peaceTreaties", pre, pre, FALSE)
    /\ Advance(NextStop)
    /\ UNCHANGED isGameFinished

TickPromotions ==
    /\ PhaseAt(OFFSET_PROMOTIONS)
    /\ LET pre == afterPeaceCheck(NextStop)
           loop == promotionLoop(pre)
       IN  \E rnd \in ShuffleAnswers(loop.w, NextStop) :
               /\ Commit(promoteNewSuzerains(pre, NextStop, rnd))
               /\ lastCall' = Call("promotions", pre, loop.w, loop.promotionsCount > 0)
    /\ Advance(NextStop)
    /\ UNCHANGED isGameFinished

TickDefeats ==
    /\ PhaseAt(OFFSET_DEFEATS)
    /\ LET pre == afterPeaceCheck(NextStop)
       IN  /\ Commit(checkForDefeatedParticipants(pre))
           /\ lastCall' = Call("defeats", pre, pre, FALSE)
    /\ Advance(NextStop)
    /\ UNCHANGED isGameFinished

TickTargetCheck ==
    /\ PhaseAt(OFFSET_TARGET_CHECK)
    /\ LET pre == afterPeaceCheck(NextStop)
       IN  \E rnd \in ShuffleAnswers(pre, NextStop) :
               /\ Commit(checkAndReassignTargets(pre, NextStop, rnd))
               /\ lastCall' = Call("targetCheck", pre, pre, TRUE)
    /\ Advance(NextStop)
    /\ UNCHANGED isGameFinished

TickCoalitions ==
    /\ PhaseAt(OFFSET_COALITION_CHECK)
    /\ \E spawnOk \in SUBSET {p \in participants : isDefeated[p]} :
           LET pre == afterPeaceCheck(NextStop)
           IN  /\ Commit(manageCoalitions(pre, spawnOk))
               /\ lastCall' = Call("coalitions", pre, pre, FALSE)
    /\ Advance(NextStop)
    /\ UNCHANGED isGameFinished

TickGameEnd ==
    /\ PhaseAt(OFFSET_GAME_END_CHECK)
    /\ LET pre == afterPeaceCheck(NextStop)
       IN  /\ Commit(pre)
           /\ isGameFinished' = gameEnds(pre)
           /\ lastCall' = Call("gameEnd", pre, pre, FALSE)
    /\ Advance(NextStop)

\* The engine delivers damage events at any tick after the handlers are
\* subscribed.  The model delivers them before the first phase tick and, in each
\* cycle, between the truce check and the defeat check.
EventWindowOpen ==
    /\ gameTickNum >= 1
    /\ \/ gameTickNum < FirstPhaseTick
       \/ (gameTickNum % GAME_CYCLE_PERIOD) \in {OFFSET_PEACE_TREATY_CHECK, OFFSET_PROMOTIONS}

\* the engine delivers a damage event between two ticks; a lethal hit on the
\* castle leaves it dead whatever the handler does with the event
UnitCauseDamage ==
    /\ EventWindowOpen
    /\ damageEvents < MaxDamageEvents
    /\ \E attacker \in participants, victim \in participants, hit \in DamageKinds :
           /\ attacker # victim
           /\ hit.castleHit => ~castleDead[victim]
           /\ hit.lethal \/ getDiplomacyStatus(World, attacker, victim) = War
           /\ LET w == onUnitCauseDamage(World, attacker, victim, hit.castleHit, hit.deltaPoints)
              IN  Commit(IF hit.lethal THEN [w EXCEPT !.castleDead[victim] = TRUE] ELSE w)
    /\ damageEvents' = damageEvents + 1
    /\ lastCall' = [kind |-> "event"]
    /\ UNCHANGED <<gameTickNum, settings, initialPowerPointsExchangeSetting,
                   powerExchangeTemporarilyDisabled, participantPeaceUntilTick, scene, participants, isGameFinished, initialPeaceEndTick>>

Next ==
    \/ TickInitialize
    \/ TickEndInitialPeace
    \/ TickMigrations
    \/ TickPeaceTreaties
    \/ TickPromotions
    \/ TickDefeats
    \/ TickTargetCheck
    \/ TickCoalitions
    \/ TickGameEnd
    \/ UnitCauseDamage

Spec == Init /\ [][Next]_vars

----------------------------------------------------------------------------
(* Properties *)

Initialized == gameTickNum >= 1

Members(t) == SeqToSet(getMembers(t))

\* the registry entries that list p as leader or as subordinate
ClaimsOf(p) == {i \in 1..Len(teams) : p \in Members(teams[i])}

\* every member of hierarchy a holds a rival reference into hierarchy b (read in world w)
TargetsTeam(w, a, b) ==
    \A m \in Members(a) : w.target[m] # NoOne /\ w.teamId[w.target[m]] = b.id

\* a and b are each other's rival, judged as the pairing pass judges it
MutualRivals(w, a, b) ==
    /\ w.target[a.suzerain] # NoOne /\ w.teamId[w.target[a.suzerain]] = b.id
    /\ w.target[b.suzerain] # NoOne /\ w.teamId[w.target[b.suzerain]] = a.id

PairingJustRan == lastCall.kind \in {"initialize", "migrations", "promotions", "targetCheck"} /\ lastCall.paired

(* C1: in every reachable state and for every two distinct participants the  *)
(* relation read for (a, b) equals the relation read for (b, a), the engine  *)
(* holds the same status in both directions and the cache entry of the pair  *)
(* agrees with it.                                                           *)
C1_DiplomaticSymmetry ==
    \A a \in participants : \A b \in participants \ {a} :
        /\ getDiplomacyStatus(World, a, b) = getDiplomacyStatus(World, b, a)
        /\ gameDiplomacy[a][b] = gameDiplomacy[b][a]
        /\ diplomacyCache[getCacheKey(a, b)] = gameDiplomacy[a][b]

\* a migration has just allied two participants and put the victor at truce with a third
C1_Witness ==
    /\ lastCall.kind = "migrations"
    /\ \E a \in participants : \E b \in participants \ {a} : \E c \in participants \ {a, b} :
           /\ getDiplomacyStatus(World, a, b) = Alliance
           /\ lastCall.pre.gameDiplomacy[a][b] = War
           /\ getDiplomacyStatus(World, c, a) = Neutral

(* C2: once the game is initialized, every participant is claimed, as leader *)
(* or as subordinate, by exactly one hierarchy of the registry, and never as *)
(* leader and subordinate at once.                                           *)
C2_SingleMembership ==
    Initialized =>
        \A p \in participants :
            /\ Cardinality(ClaimsOf(p)) = 1
            /\ \A i \in ClaimsOf(p) : ~(teams[i].suzerain = p /\ p \in SeqToSet(teams[i].vassals))

\* a weaken-mode migration has just left some participant claimed by no hierarchy
C2_Witness ==
    /\ lastCall.kind = "migrations"
    /\ settings.weakenSnowballEffect
    /\ \E p \in participants : ClaimsOf(p) = {} /\ Cardinality({i \in 1..Len(lastCall.pre.teams) :
                                     p \in Members(lastCall.pre.teams[i])}) = 1

(* C3: after every run of checkAndReassignTargets the rival relation over    *)
(* the registered hierarchies is symmetric (A's members target B iff B's     *)
(* members target A) and no hierarchy is the rival of two different ones.    *)
C3_RivalsSymmetricOneToOne ==
    PairingJustRan =>
        \A i \in 1..Len(teams) : \A j \in 1..Len(teams) :
            /\ TargetsTeam(World, teams[i], teams[j]) <=> TargetsTeam(World, teams[j], teams[i])
            /\ \A k \in 1..Len(teams) :
                   (TargetsTeam(World, teams[j], teams[i]) /\ TargetsTeam(World, teams[k], teams[i]))
                       => j = k

\* a pass has just paired two hierarchies of which one has a subordinate
C3_Witness ==
    /\ PairingJustRan
    /\ \E i \in 1..Len(teams) : \E j \in 1..Len(teams) :
           /\ i # j
           /\ Len(teams[i].vassals) > 0
           /\ TargetsTeam(World, teams[i], teams[j])
           /\ TargetsTeam(World, teams[j], teams[i])

(* C4: two hierarchies that are mutual rivals and outside truce when         *)
(* checkAndReassignTargets starts are still mutual rivals after the pass and *)
(* no member of either has its rival reference rewritten, whatever the       *)
(* shuffle returns.                                                          *)
C4_PairingStability ==
    PairingJustRan =>
        \A i \in 1..Len(lastCall.mid.teams) : \A j \in 1..Len(lastCall.mid.teams) :
            LET a == lastCall.mid.teams[i]
                b == lastCall.mid.teams[j]
            IN  (/\ MutualRivals(lastCall.mid, a, b)
                 /\ a.peaceUntilTick <= gameTickNum
                 /\ b.peaceUntilTick <= gameTickNum)
                => /\ MutualRivals(World, a, b)
                   /\ \A m \in Members(a) \cup Members(b) : target[m] = lastCall.mid.target[m]

\* a pass has run over a stable pair while a third hierarchy stood unpaired
C4_Witness ==
    /\ PairingJustRan
    /\ settings.enableTargetSystem
    /\ \E i \in 1..Len(lastCall.mid.teams) : \E j \in 1..Len(lastCall.mid.teams) :
           /\ i # j
           /\ MutualRivals(lastCall.mid, lastCall.mid.teams[i], lastCall.mid.teams[j])
           /\ lastCall.mid.teams[i].peaceUntilTick <= gameTickNum
           /\ lastCall.mid.teams[j].peaceUntilTick <= gameTickNum
    /\ Len(teamsToReassign(lastCall.mid, gameTickNum)) > 0

\* A is outside D's hierarchy and holds the strictly highest castle-damage credit against D
HighestCreditor(w, A, D) ==
    /\ w.teamId[A] # w.teamId[D]
    /\ w.castleDamageDealtTo[A][D] > 0
    /\ \A o \in participants \ {A} :
           w.teamId[o] # w.teamId[D] => w.castleDamageDealtTo[o][D] < w.castleDamageDealtTo[A][D]

\* p is listed as a subordinate by a registered hierarchy that also holds A
SubordinateInHierarchyOf(p, A) ==
    \E i \in 1..Len(teams) : p \in SeqToSet(teams[i].vassals) /\ A \in Members(teams[i])

\* the members of the hierarchy that D led in world w
FormerHierarchy(w, D) ==
    UNION {Members(w.teams[i]) : i \in {j \in 1..Len(w.teams) : w.teams[j].suzerain = D}}

(* C9: if D is flagged eliminated when a migration pass starts and A, outside *)
(* D's hierarchy, holds the highest castle-damage credit against D, then     *)
(* after the pass D is a subordinate of A's hierarchy and is no longer       *)
(* flagged; under full absorption a D that led a hierarchy brings all its    *)
(* members along.                                                            *)
C9_DefeatedJoinsVictor ==
    lastCall.kind = "migrations" =>
        \A D \in participants : \A A \in participants \ {D} :
            (lastCall.pre.isDefeated[D] /\ HighestCreditor(lastCall.pre, A, D))
            => /\ SubordinateInHierarchyOf(D, A)
               /\ ~isDefeated[D]
               /\ (isSuzerain(lastCall.pre, D) /\ ~settings.weakenSnowballEffect)
                      => \A m \in FormerHierarchy(lastCall.pre, D) : SubordinateInHierarchyOf(m, A)

\* a pass has just moved a single flagged participant into its attacker's hierarchy
C9_Witness ==
    /\ lastCall.kind = "migrations"
    /\ \E D \in participants : \E A \in participants \ {D} :
           /\ lastCall.pre.isDefeated[D]
           /\ HighestCreditor(lastCall.pre, A, D)
           /\ SubordinateInHierarchyOf(D, A)
           /\ lastCall.migrated[D] = 1

(* C10: within one migration pass every participant that was flagged at the  *)
(* start of the pass is migrated (moved, with spoils taken from it) or       *)
(* restored at most once.                                                    *)
C10_ProcessedAtMostOnce ==
    lastCall.kind = "migrations" =>
        \A p \in participants :
            lastCall.pre.isDefeated[p] => lastCall.migrated[p] + lastCall.restored[p] <= 1

\* a pass has skipped a flagged subordinate that was already absorbed with its leader
C10_Witness ==
    /\ lastCall.kind = "migrations"
    /\ \E p \in participants : \E q \in participants \ {p} :
           /\ lastCall.pre.isDefeated[p] /\ lastCall.pre.isDefeated[q]
           /\ lastCall.pre.suzerain[q] = p
           /\ lastCall.migrated[p] = 1 /\ lastCall.migrated[q] = 1

----------------------------------------------------------------------------
(* The Team of ModData/Scripts/Team.ts: promotion without a margin, and a    *)
(* shareSpoils that clears only the damage credit.                           *)

changeSuzerain_TeamTs(w, t, newSuzerain) ==
    LET oldSuzerain == t.suzerain
        vassals1 == MapSetId(SeqRemove(t.vassals, newSuzerain), oldSuzerain)
        t1 == [t EXCEPT !.vassals = vassals1, !.suzerain = newSuzerain]
        w1 == [w EXCEPT !.suzerain[newSuzerain] = NoOne, !.suzerain[oldSuzerain] = newSuzerain]
        w2 == FoldSeq(LAMBDA acc, vassal :
                          IF vassal # oldSuzerain THEN [acc EXCEPT !.suzerain[vassal] = newSuzerain] ELSE acc,
                      w1, vassals1)
    IN  [w |-> w2, t |-> t1]

promoteNewSuzerainIfNeeded_TeamTs(w, t) ==
    IF mostPowerfulMember(w, t) # t.suzerain
    THEN LET r == changeSuzerain_TeamTs(w, t, mostPowerfulMember(w, t))
         IN  [w |-> r.w, t |-> r.t, changed |-> TRUE]
    ELSE [w |-> w, t |-> t, changed |-> FALSE]

shareSpoils_TeamTs(w, t, defeated, takenPercentage) ==
    LET distributedPower == RMul(w.powerPoints[defeated], takenPercentage)
        w1 == [w EXCEPT !.powerPoints[defeated] = RSub(@, distributedPower)]
        members == getMembers(t)
        totalDamage == SeqSum([i \in 1..Len(members) |-> damageCredit(w1, members[i], defeated)])
    IN  FoldSeq(LAMBDA acc, member :
                    LET gain == RMul(distributedPower,
                                     Rat(damageCredit(acc, member, defeated), totalDamage))
                    IN  [acc EXCEPT !.powerPoints[member] = RAdd(@, gain),
                                    !.damageDealtTo[member][defeated] = 0],
                w1, members)

----------------------------------------------------------------------------
(* FfaParticipant.payTribute *)

RFloor(x) == x.n \div x.d

ResourceKinds == {"Gold", "Metal", "Lumber", "FreePeople"}

\* Math.floor(vassalResourceLimit + 0.1 * powerPoints)
resourceLimit(w, p) == RFloor(RAdd(RInt(vassalResourceLimit), RMul(Rat(1, 10), w.powerPoints[p])))

\* Math.floor(vassalPopulationLimit + 0.002 * powerPoints)
populationLimit(w, p) == RFloor(RAdd(RInt(vassalPopulationLimit), RMul(Rat(2, 1000), w.powerPoints[p])))

limitOf(w, p, kind) == IF kind = "FreePeople" THEN populationLimit(w, p) ELSE resourceLimit(w, p)

\* a plausible slip: the excess is not clamped at zero
tributeUnclamped(w, p) ==
    [kind \in ResourceKinds |-> w.resources[p][kind] - limitOf(w, p, kind)]

\* createResourcesAmount(max(0, Gold - limit), ..., max(0, FreePeople - populationLimit))
tribute(w, p) ==
    [kind \in ResourceKinds |-> Max(0, w.resources[p][kind] - limitOf(w, p, kind))]

\* a plausible slip: the guard admits a transfer that leaves leader and subordinate level
exchangedPointsUpToHalf(w, p, totalResourceValue) ==
    LET pointsToTransfer == RMul(RInt(totalResourceValue), powerPointsExchangeRate)
        powerDifference == RSub(w.powerPoints[w.suzerain[p]], w.powerPoints[p])
    IN  IF settings.enablePowerPointsExchange /\ totalResourceValue > 0
           /\ ~RLt(powerDifference, RMul(pointsToTransfer, RInt(2)))
        THEN IF RLt(w.powerPoints[w.suzerain[p]], pointsToTransfer)
             THEN w.powerPoints[w.suzerain[p]] ELSE pointsToTransfer
        ELSE RZero

\* the points the suzerain hands over for a tribute worth totalResourceValue
exchangedPoints(w, p, totalResourceValue) ==
    LET pointsToTransfer == RMul(RInt(totalResourceValue), powerPointsExchangeRate)
        powerDifference == RSub(w.powerPoints[w.suzerain[p]], w.powerPoints[p])
    IN  IF settings.enablePowerPointsExchange /\ totalResourceValue > 0
           /\ RGt(powerDifference, RMul(pointsToTransfer, RInt(2)))
        THEN IF RLt(w.powerPoints[w.suzerain[p]], pointsToTransfer)
             THEN w.powerPoints[w.suzerain[p]] ELSE pointsToTransfer
        ELSE RZero

payTribute(w, p) ==
    IF ~isVassal(w, p) THEN [w |-> w, paid |-> FALSE]
    ELSE LET due == tribute(w, p)
             suz == w.suzerain[p]
             totalResourceValue == due["Gold"] + due["Metal"] + due["Lumber"]
             points == exchangedPoints(w, p, totalResourceValue)
             \* settlement.Resources.TakeResources(tribute)
             w1 == [w EXCEPT !.resources[p] = [kind \in ResourceKinds |-> @[kind] - due[kind]]]
             \* suzerain.receiveResources(resourceTribute): everything but the people
             w2 == [w1 EXCEPT !.resources[suz] =
                        [kind \in ResourceKinds |->
                            IF kind = "FreePeople" THEN @[kind] ELSE @[kind] + due[kind]]]
             w3 == IF RGt(points, RZero)
                   THEN [w2 EXCEPT !.powerPoints[suz] = RSub(@, points),
                                   !.powerPoints[p] = RAdd(@, points)]
                   ELSE w2
         IN  IF \E kind \in ResourceKinds : due[kind] > 0
             THEN [w |-> IF totalResourceValue > 0 THEN w3 ELSE w1, paid |-> TRUE]
             ELSE [w |-> w, paid |-> FALSE]

----------------------------------------------------------------------------
(* Single methods called on the hierarchies the plugin can build.  A shape   *)
(* is the registry after none, one or two participants have been made        *)
(* subordinates of a leader by addVassal, all others at war.                 *)

AllIds == 0..(MaxParticipants - 1)

JoinAs(w, leader, vassal) ==
    LET a == addVassal(w, TeamsGet(w.teams, leader), vassal, TRUE)
    IN  [a.w EXCEPT !.teams = TeamsDelete(TeamsSet(@, a.t), vassal)]

\* n participants, each the leader of its own team, everyone at war with everyone
WarOfAll(n) == setDiplomacyAmongAll(setupParticipantsAndTeams(n), IdSeq(0, n - 1), War)

LeaderAndVassal(n) == {x \in (0..(n - 1)) \X (0..(n - 1)) : x[1] # x[2]}

HierarchyShapes(n) ==
    {WarOfAll(n)}
    \cup {JoinAs(WarOfAll(n), x[1], x[2]) : x \in LeaderAndVassal(n)}
    \cup UNION {{JoinAs(JoinAs(WarOfAll(n), x[1], x[2]), x[1], v2) :
                     v2 \in (0..(n - 1)) \ {x[1], x[2]}} : x \in LeaderAndVassal(n)}

MethodSettings ==
    [enableInitialPeacePeriod : {FALSE}, weakenSnowballEffect : {FALSE},
     enableTargetSystem : {TRUE}, enableCoalitionsAgainstLeader : {TRUE},
     enablePowerPointsExchange : BOOLEAN,
     temporaryPeaceDurationTicks : {temporaryPeaceDurationTicks}]

\* the state variables hold the world w, the game is running, nothing was called yet
Holds(w) ==
    /\ gameTickNum = 1
    /\ scene = MaxParticipants
    /\ participants = AllIds
    /\ teams = w.teams
    /\ teamId = w.teamId
    /\ suzerain = w.suzerain
    /\ target = w.target
    /\ isDefeated = w.isDefeated
    /\ castleDead = w.castleDead
    /\ powerPoints = w.powerPoints
    /\ damageDealtTo = w.damageDealtTo
    /\ castleDamageDealtTo = w.castleDamageDealtTo
    /\ diplomacyCache = w.diplomacyCache
    /\ gameDiplomacy = w.gameDiplomacy
    /\ resources = w.resources
    /\ isGameFinished = FALSE
    /\ initialPowerPointsExchangeSetting = exchangeConfigured(settings)
    /\ powerExchangeTemporarilyDisabled = FALSE
    /\ participantPeaceUntilTick = <<>>
    /\ initialPeaceEndTick = 0
    /\ damageEvents = 0
    /\ lastCall = [kind |-> "none"]

MethodFrame == UNCHANGED <<gameTickNum, settings, initialPowerPointsExchangeSetting,
                           powerExchangeTemporarilyDisabled, participantPeaceUntilTick, scene, participants, isGameFinished,
                           initialPeaceEndTick, damageEvents>>

----------------------------------------------------------------------------
(* Team.promoteNewSuzerainIfNeeded, called once or twice in a row *)

PowerSamples == {initialPowerPoints, initialPowerPoints + PromotionMargin,
                 initialPowerPoints + PromotionMargin + 1,
                 initialPowerPoints + 2 * PromotionMargin + 2}

InitPromote ==
    /\ settings \in {m \in MethodSettings : ~m.enablePowerPointsExchange}
    /\ \E shape \in HierarchyShapes(MaxParticipants), score \in [AllIds -> PowerSamples] :
           Holds([shape EXCEPT !.powerPoints = [p \in AllIds |-> RInt(score[p])]])

\* nothing was called yet, or the same method was called once on the same team
MayCallPromote(variant, id) ==
    \/ lastCall.kind = "none"
    \/ /\ lastCall.kind = "promote"
       /\ lastCall.variant = variant
       /\ lastCall.team = id
       /\ lastCall.nth = 1

PromoteCall(variant, id, r) ==
    [kind |-> "promote", variant |-> variant, team |-> id, pre |-> World,
     changed |-> r.changed, nth |-> IF lastCall.kind = "none" THEN 1 ELSE 2]

CallPromote ==
    \E id \in AllIds :
        /\ HasTeam(teams, id)
        /\ MayCallPromote("part_002", id)
        /\ LET r == promoteNewSuzerainIfNeeded(World, TeamsGet(teams, id))
           IN  /\ Commit([r.w EXCEPT !.teams = TeamsSet(@, r.t)])
               /\ lastCall' = PromoteCall("part_002", id, r)
        /\ MethodFrame

CallPromote_TeamTs ==
    \E id \in AllIds :
        /\ HasTeam(teams, id)
        /\ MayCallPromote("Team.ts", id)
        /\ LET r == promoteNewSuzerainIfNeeded_TeamTs(World, TeamsGet(teams, id))
           IN  /\ Commit([r.w EXCEPT !.teams = TeamsSet(@, r.t)])
               /\ lastCall' = PromoteCall("Team.ts", id, r)
        /\ MethodFrame

NextPromote == CallPromote \/ CallPromote_TeamTs

SpecPromote == InitPromote /\ [][NextPromote]_vars

\* the hierarchy the last promotion call was made on, before and after the call
PromotedBefore == TeamsGet(lastCall.pre.teams, lastCall.team)
PromotedAfter == TeamsGet(teams, lastCall.team)

\* some member's score exceeds the leader's by at least the margin
ExceedsByMargin(w, t) ==
    \E m \in Members(t) :
        ~RLt(w.powerPoints[m], RAdd(w.powerPoints[t.suzerain], RInt(PromotionMargin)))

MarginRespected ==
    /\ PromotedAfter.suzerain # PromotedBefore.suzerain => ExceedsByMargin(lastCall.pre, PromotedBefore)
    /\ ~ExceedsByMargin(lastCall.pre, PromotedBefore) =>
           /\ ~lastCall.changed
           /\ PromotedAfter = PromotedBefore
           /\ \A m \in Members(PromotedBefore) : suzerain[m] = lastCall.pre.suzerain[m]

\* C5: promoteNewSuzerainIfNeeded changes the leader only when some member's
\* power-score exceeds the leader's by at least the margin of 10; when none does
\* it reports no change and leaves the leader, the subordinates and every
\* member's leader reference as they were.
C5_PromotionMargin == lastCall.kind = "promote" => MarginRespected

\* C5 for the newer Team (part_002) alone
C5_PromotionMargin_part_002 ==
    (lastCall.kind = "promote" /\ lastCall.variant = "part_002") => MarginRespected

\* a promotion call on a team whose strongest member leads the leader by less than the margin
C5_Witness ==
    /\ lastCall.kind = "promote"
    /\ Len(PromotedBefore.vassals) > 0
    /\ ~ExceedsByMargin(lastCall.pre, PromotedBefore)
    /\ PromotedAfter.suzerain # PromotedBefore.suzerain

\* C6: two calls of promoteNewSuzerainIfNeeded in a row, no score changed in
\* between, make at most one leadership change: the second call leaves the
\* leader unchanged, whatever the scores are, ties for the highest included.
C6_SecondCallKeepsLeader ==
    (lastCall.kind = "promote" /\ lastCall.nth = 2) =>
        PromotedAfter.suzerain = PromotedBefore.suzerain

\* C6 for the newer Team (part_002) alone
C6_SecondCallKeepsLeader_part_002 ==
    (lastCall.kind = "promote" /\ lastCall.nth = 2 /\ lastCall.variant = "part_002") =>
        PromotedAfter.suzerain = PromotedBefore.suzerain

\* a second call in a row on a team whose two highest scores are tied, which changed the leader again
C6_Witness ==
    /\ lastCall.kind = "promote"
    /\ lastCall.nth = 2
    /\ \E m \in Members(PromotedBefore) \ {PromotedBefore.suzerain} :
           powerPoints[m] = powerPoints[PromotedBefore.suzerain]
    /\ PromotedAfter.suzerain # PromotedBefore.suzerain

----------------------------------------------------------------------------
(* Team.shareSpoils, called once.  Every call site passes a participant of   *)
(* another team: findWinnerFor never returns a team-mate of the defeated.    *)

SpoilsPowerSamples == {initialPowerPoints, initialPowerPoints + PromotionMargin}

CreditSamples == {0, CastleHitPoints, UnitHitPoints}

\* the fractions passed by processTeamMigrations: 0.20 for a leader, 0.10 for a subordinate
SpoilsFractions == {Rat(1, 5), Rat(1, 10)}

InitSpoils ==
    /\ settings \in {m \in MethodSettings : ~m.enablePowerPointsExchange}
    /\ \E shape \in HierarchyShapes(MaxParticipants),
          score \in [AllIds -> SpoilsPowerSamples],
          credit \in [AllIds -> CreditSamples] :
           Holds([shape EXCEPT !.powerPoints = [p \in AllIds |-> RInt(score[p])],
                               !.damageDealtTo = [p \in AllIds |->
                                                     [q \in AllIds |-> IF p # q THEN credit[p] ELSE 0]]])

SpoilsCall(variant, id, defeated, takenPercentage) ==
    [kind |-> "shareSpoils", variant |-> variant, team |-> id, defeated |-> defeated,
     takenPercentage |-> takenPercentage, pre |-> World]

CallShareSpoils ==
    \E id \in AllIds, defeated \in AllIds, takenPercentage \in SpoilsFractions :
        /\ lastCall.kind = "none"
        /\ HasTeam(teams, id)
        /\ defeated \notin Members(TeamsGet(teams, id))
        /\ Commit(shareSpoils(World, TeamsGet(teams, id), defeated, takenPercentage))
        /\ lastCall' = SpoilsCall("part_002", id, defeated, takenPercentage)
        /\ MethodFrame

CallShareSpoils_TeamTs ==
    \E id \in AllIds, defeated \in AllIds, takenPercentage \in SpoilsFractions :
        /\ lastCall.kind = "none"
        /\ HasTeam(teams, id)
        /\ defeated \notin Members(TeamsGet(teams, id))
        /\ Commit(shareSpoils_TeamTs(World, TeamsGet(teams, id), defeated, takenPercentage))
        /\ lastCall' = SpoilsCall("Team.ts", id, defeated, takenPercentage)
        /\ MethodFrame

NextSpoils == CallShareSpoils \/ CallShareSpoils_TeamTs

SpecSpoils == InitSpoils /\ [][NextSpoils]_vars

\* every score is kept in lowest terms, so equal scores are equal records
REq(x, y) == x = y

\* the sum of the scores w gives to the participants listed in s
PowerOf(w, s) == FoldSeq(LAMBDA acc, p : RAdd(acc, w.powerPoints[p]), RZero, s)

SpoilsTeam == TeamsGet(lastCall.pre.teams, lastCall.team)

\* what the call took from the defeated: f times its score before the call
SpoilsRemoved == RMul(lastCall.pre.powerPoints[lastCall.defeated], lastCall.takenPercentage)

SpoilsGain(m) == RSub(powerPoints[m], lastCall.pre.powerPoints[m])

SpoilsCredit(m) == Max(1, lastCall.pre.damageDealtTo[m][lastCall.defeated])

SpoilsTotalCredit ==
    FoldSeq(LAMBDA acc, m : acc + SpoilsCredit(m), 0, getMembers(SpoilsTeam))

\* C7: shareSpoils(d, f) lowers d's power-score by exactly f times its value
\* before the call; the gains of the members of the receiving hierarchy sum to
\* that amount, each gain proportional to max(1, the member's damage credit
\* against d); the power-score summed over all participants is unchanged.
C7_SpoilsConservation ==
    lastCall.kind = "shareSpoils" =>
        /\ REq(powerPoints[lastCall.defeated],
               RSub(lastCall.pre.powerPoints[lastCall.defeated], SpoilsRemoved))
        /\ REq(RSub(PowerOf(World, getMembers(SpoilsTeam)),
                    PowerOf(lastCall.pre, getMembers(SpoilsTeam))),
               SpoilsRemoved)
        /\ \A m \in Members(SpoilsTeam) :
               REq(RMul(SpoilsGain(m), RInt(SpoilsTotalCredit)),
                   RMul(SpoilsRemoved, RInt(SpoilsCredit(m))))
        /\ REq(PowerOf(World, ParticipantSeq), PowerOf(lastCall.pre, ParticipantSeq))
        /\ \A p \in participants \ (Members(SpoilsTeam) \cup {lastCall.defeated}) :
               powerPoints[p] = lastCall.pre.powerPoints[p]

\* spoils shared among two members with different damage credit, one of them without any
C7_Witness ==
    /\ lastCall.kind = "shareSpoils"
    /\ \E m1, m2 \in Members(SpoilsTeam) :
           /\ lastCall.pre.damageDealtTo[m1][lastCall.defeated] = 0
           /\ lastCall.pre.damageDealtTo[m2][lastCall.defeated] > 1
           /\ RLt(SpoilsGain(m1), SpoilsGain(m2))
           /\ RGt(SpoilsGain(m1), RZero)
    /\ RGt(SpoilsRemoved, RZero)

----------------------------------------------------------------------------
(* FfaParticipant.payTribute, called once *)

\* scores that give a low and a high limit
TributePowerSamples == {initialPowerPoints, initialPowerPoints * 10}

\* the resource limit and the population limit of a participant at the starting score
StartResourceLimit == RFloor(RAdd(RInt(vassalResourceLimit), RMul(Rat(1, 10), RInt(initialPowerPoints))))
StartPopulationLimit == RFloor(RAdd(RInt(vassalPopulationLimit), RMul(Rat(2, 1000), RInt(initialPowerPoints))))

\* holdings below, at and above the limits
HoldingSamples ==
    {[Gold |-> 0, Metal |-> 0, Lumber |-> 0, FreePeople |-> 0],
     [Gold |-> StartResourceLimit, Metal |-> StartResourceLimit - 1,
      Lumber |-> StartResourceLimit, FreePeople |-> StartPopulationLimit],
     [Gold |-> StartResourceLimit + 1, Metal |-> 0,
      Lumber |-> StartResourceLimit * 10, FreePeople |-> StartPopulationLimit],
     [Gold |-> 0, Metal |-> StartResourceLimit, Lumber |-> 0, FreePeople |-> StartPopulationLimit + 3]}

InitTribute ==
    /\ settings \in MethodSettings
    /\ \E shape \in HierarchyShapes(MaxParticipants),
          score \in [AllIds -> TributePowerSamples],
          held \in [AllIds -> HoldingSamples] :
           Holds([shape EXCEPT !.powerPoints = [p \in AllIds |-> RInt(score[p])],
                               !.resources = held])

CallPayTribute ==
    \E p \in AllIds :
        /\ lastCall.kind = "none"
        /\ LET r == payTribute(World, p)
           IN  /\ Commit(r.w)
               /\ lastCall' = [kind |-> "payTribute", who |-> p, pre |-> World, paid |-> r.paid]
        /\ MethodFrame

NextTribute == CallPayTribute

SpecTribute == InitTribute /\ [][NextTribute]_vars

\* the limit that applied to the payer's holding of the kind when payTribute was called
TributeLimit(kind) == limitOf(lastCall.pre, lastCall.who, kind)

\* what was collected from the payer
TributeTaken(kind) == lastCall.pre.resources[lastCall.who][kind] - resources[lastCall.who][kind]

\* C8: for each resource kind payTribute collects max(0, held - limit), never a
\* negative amount; afterwards each holding of the subordinate is min(holding
\* before, limit), so no holding is taken below its limit; a participant that
\* is not a subordinate pays nothing and is unchanged.
C8_TributeClamped ==
    lastCall.kind = "payTribute" =>
        IF isVassal(lastCall.pre, lastCall.who)
        THEN \A kind \in ResourceKinds :
                 /\ TributeTaken(kind) = Max(0, lastCall.pre.resources[lastCall.who][kind] - TributeLimit(kind))
                 /\ TributeTaken(kind) >= 0
                 /\ resources[lastCall.who][kind] = Min(lastCall.pre.resources[lastCall.who][kind], TributeLimit(kind))
        ELSE /\ ~lastCall.paid
             /\ World = lastCall.pre

\* a subordinate paid from a holding above its limit while another of its holdings was below
C8_Witness ==
    /\ lastCall.kind = "payTribute"
    /\ isVassal(lastCall.pre, lastCall.who)
    /\ lastCall.paid
    /\ \E k1, k2 \in ResourceKinds :
           /\ TributeTaken(k1) > 0
           /\ resources[lastCall.who][k1] = TributeLimit(k1)
           /\ lastCall.pre.resources[lastCall.who][k2] < TributeLimit(k2)
           /\ TributeTaken(k2) = 0

----------------------------------------------------------------------------
(* manageCoalitions, called on a scene with one participant more than the   *)
(* game model: the smallest scene in which a hierarchy can hold half of the *)
(* participants while two other hierarchies exist.                          *)

CoalitionScene == MaxParticipants + 1

CoalitionIds == 0..(CoalitionScene - 1)

CoalitionTick == FirstPhaseTick + OFFSET_COALITION_CHECK

CoalitionPowerSamples == {initialPowerPoints, initialPowerPoints + PromotionMargin}

CoalitionSettings ==
    [enableInitialPeacePeriod : {FALSE}, weakenSnowballEffect : {FALSE},
     enableTargetSystem : BOOLEAN, enableCoalitionsAgainstLeader : BOOLEAN,
     enablePowerPointsExchange : {FALSE},
     temporaryPeaceDurationTicks : {temporaryPeaceDurationTicks}]

\* Team.addVassal of ModData/Scripts/Team.ts: the rival reference is not synchronised
addVassal_TeamTs(w, t, vassal, spawnOk) ==
    LET t1 == [t EXCEPT !.vassals = MapSetId(@, vassal)]
        w1 == [w EXCEPT !.teamId[vassal] = t.id, !.suzerain[vassal] = t.suzerain]
        w2 == updateDiplomacyOnJoin(w1, t1, vassal)
    IN  [w |-> IF w.isDefeated[vassal] THEN respawnCastle(w2, vassal, spawnOk) ELSE w2, t |-> t1]

addSuzerainAndVassals_TeamTs(w, t, formerSuzerain, formerVassals, spawnOk) ==
    FoldSeq(LAMBDA acc, vassal : addVassal_TeamTs(acc.w, acc.t, vassal, spawnOk),
            addVassal_TeamTs(w, t, formerSuzerain, spawnOk), formerVassals)

\* ModData/Scripts/AutoFFAPlugin.ts: team.getMemberCount() > totalPlayers / 2
findDominantTeam_AutoFFAPlugin(w) ==
    LET dominant == SelectSeq(w.teams, LAMBDA t : 2 * getMemberCount(t) > Cardinality(participants))
    IN  IF dominant = <<>> THEN NoTeam ELSE Head(dominant)

\* ModData/Scripts/AutoFFAPlugin.ts: the merge and the war declaration, no rival assignment
manageCoalitions_AutoFFAPlugin(w, spawnOk) ==
    LET dominantTeam == findDominantTeam_AutoFFAPlugin(w)
        otherTeams == SelectSeq(w.teams, LAMBDA t : t.id # dominantTeam.id)
    IN  IF ~settings.enableCoalitionsAgainstLeader \/ dominantTeam = NoTeam THEN w
        ELSE IF Len(otherTeams) <= 1 THEN w
        ELSE LET leader0 == coalitionLeader(w, otherTeams)
                 teamsToMerge == SelectSeq(otherTeams, LAMBDA t : t.id # leader0.id)
                 merged == FoldSeq(LAMBDA acc, teamToMerge : LET a == addSuzerainAndVassals_TeamTs(acc.w, acc.t, teamToMerge.suzerain, teamToMerge.vassals, spawnOk) IN [w |-> [a.w EXCEPT !.teams = TeamsDelete(TeamsSet(@, a.t), teamToMerge.id)], t |-> a.t], [w |-> w, t |-> leader0], teamsToMerge)
             IN  setWarStatusWithAll(merged.w, merged.t, <<dominantTeam>>)

InitCoalition ==
    /\ settings \in CoalitionSettings
    /\ \E shape \in HierarchyShapes(CoalitionScene), score \in [CoalitionIds -> CoalitionPowerSamples] :
           LET w == [shape EXCEPT !.powerPoints = [p \in CoalitionIds |-> RInt(score[p])]]
           IN  /\ teams = w.teams
               /\ teamId = w.teamId
               /\ suzerain = w.suzerain
               /\ target = w.target
               /\ isDefeated = w.isDefeated
               /\ castleDead = w.castleDead
               /\ powerPoints = w.powerPoints
               /\ damageDealtTo = w.damageDealtTo
               /\ castleDamageDealtTo = w.castleDamageDealtTo
               /\ diplomacyCache = w.diplomacyCache
               /\ gameDiplomacy = w.gameDiplomacy
               /\ resources = w.resources
    /\ gameTickNum = CoalitionTick - 1
    /\ scene = CoalitionScene
    /\ participants = CoalitionIds
    /\ isGameFinished = FALSE
    /\ initialPowerPointsExchangeSetting = exchangeConfigured(settings)
    /\ powerExchangeTemporarilyDisabled = FALSE
    /\ participantPeaceUntilTick = <<>>
    /\ initialPeaceEndTick = 0
    /\ damageEvents = 0
    /\ lastCall = [kind |-> "none"]

\* a truce that is still running at the coalition check is granted to one hierarchy
CallStartTemporaryPeace ==
    /\ lastCall.kind = "none"
    /\ \E i \in 1..Len(teams) :
           LET s == startTemporaryPeace(World, teams[i], gameTickNum)
           IN  Commit([s.w EXCEPT !.teams = TeamsSet(@, s.t)])
    /\ lastCall' = [kind |-> "startTemporaryPeace"]
    /\ MethodFrame

\* the pairing pass of the cycle, one tick before the coalition check
CallCheckAndReassignTargets ==
    /\ lastCall.kind \in {"none", "startTemporaryPeace"}
    /\ \E rnd \in ShuffleAnswers(World, gameTickNum) :
           Commit(checkAndReassignTargets(World, gameTickNum, rnd))
    /\ lastCall' = [kind |-> "checkAndReassignTargets"]
    /\ MethodFrame

CallManageCoalitions ==
    /\ lastCall.kind \in {"none", "startTemporaryPeace", "checkAndReassignTargets"}
    /\ Commit(manageCoalitions(World, {}))
    /\ lastCall' = [kind |-> "manageCoalitions", variant |-> "part_004", pre |-> World]
    /\ gameTickNum' = CoalitionTick
    /\ UNCHANGED <<settings, initialPowerPointsExchangeSetting,
                   powerExchangeTemporarilyDisabled, participantPeaceUntilTick, scene, participants, isGameFinished, initialPeaceEndTick, damageEvents>>

\* the older plugin has no pairing pass: it is called on unpaired hierarchies only
CallManageCoalitions_AutoFFAPlugin ==
    /\ lastCall.kind \in {"none", "startTemporaryPeace"}
    /\ Commit(manageCoalitions_AutoFFAPlugin(World, {}))
    /\ lastCall' = [kind |-> "manageCoalitions", variant |-> "AutoFFAPlugin.ts", pre |-> World]
    /\ gameTickNum' = CoalitionTick
    /\ UNCHANGED <<settings, initialPowerPointsExchangeSetting,
                   powerExchangeTemporarilyDisabled, participantPeaceUntilTick, scene, participants, isGameFinished, initialPeaceEndTick, damageEvents>>

NextCoalition ==
    \/ CallStartTemporaryPeace
    \/ CallCheckAndReassignTargets
    \/ CallManageCoalitions
    \/ CallManageCoalitions_AutoFFAPlugin

SpecCoalition == InitCoalition /\ [][NextCoalition]_vars

\* the hierarchies of world w that hold at least half of all participants
HoldingHalf(w) == {i \in 1..Len(w.teams) : 2 * getMemberCount(w.teams[i]) >= Cardinality(participants)}

\* the case of the claim: formation enabled, one such hierarchy, two or more others
CoalitionCase(w) ==
    /\ settings.enableCoalitionsAgainstLeader
    /\ HoldingHalf(w) # {}
    /\ Len(w.teams) >= 3

\* hierarchy i of world w is led by a participant no other non-dominant leader outscores
StrongestOther(w, i) ==
    /\ i \notin HoldingHalf(w)
    /\ \A j \in (1..Len(w.teams)) \ HoldingHalf(w) :
           ~RGt(w.powerPoints[w.teams[j].suzerain], w.powerPoints[w.teams[i].suzerain])

AllAtWar(a, b) ==
    \A m \in Members(a) : \A o \in Members(b) :
        /\ getDiplomacyStatus(World, m, o) = War
        /\ gameDiplomacy[m][o] = War
        /\ gameDiplomacy[o][m] = War

\* the registry holds exactly the dominant hierarchy, unchanged, and one hierarchy led by
\* the strongest of the other leaders that holds everyone else
TwoSidesRemain ==
    \E d \in HoldingHalf(lastCall.pre) : \E c \in (1..Len(lastCall.pre.teams)) \ {d} :
        LET dominantTeam == lastCall.pre.teams[d]
            chosen == lastCall.pre.teams[c]
        IN  /\ StrongestOther(lastCall.pre, c)
            /\ Len(teams) = 2
            /\ HasTeam(teams, dominantTeam.id)
            /\ HasTeam(teams, chosen.id)
            /\ TeamsGet(teams, dominantTeam.id).suzerain = dominantTeam.suzerain
            /\ Members(TeamsGet(teams, dominantTeam.id)) = Members(dominantTeam)
            /\ TeamsGet(teams, chosen.id).suzerain = chosen.suzerain
            /\ Members(TeamsGet(teams, chosen.id)) = participants \ Members(dominantTeam)
            /\ \A m \in Members(TeamsGet(teams, chosen.id)) : teamId[m] = chosen.id

\* the two hierarchies left are at War member by member and are each other's rival
TwoSidesConfront ==
    /\ Len(teams) = 2
    /\ AllAtWar(teams[1], teams[2])
    /\ MutualRivals(World, teams[1], teams[2])
    /\ TargetsTeam(World, teams[1], teams[2])
    /\ TargetsTeam(World, teams[2], teams[1])

(* C11: when coalition formation is enabled and, before manageCoalitions,   *)
(* one hierarchy holds at least half of all participants and two or more    *)
(* other hierarchies exist, then after the call the registry holds exactly  *)
(* two hierarchies: the dominant one with its members unchanged, and one    *)
(* led by the strongest leader among the others that has every other        *)
(* participant as a member; every pair made of one member of each is at     *)
(* War, and the two hierarchies are each other's rival.                     *)
C11_CoalitionFormsTwoSides ==
    (lastCall.kind = "manageCoalitions" /\ CoalitionCase(lastCall.pre)) =>
        (TwoSidesRemain /\ TwoSidesConfront)

\* C11 for the plugin of part_004 alone
C11_CoalitionFormsTwoSides_part_004 ==
    (lastCall.kind = "manageCoalitions" /\ lastCall.variant = "part_004"
        /\ CoalitionCase(lastCall.pre)) =>
        (TwoSidesRemain /\ TwoSidesConfront)

\* two hierarchies were merged into a third while the dominant one was under truce
\* and the merged hierarchies had been paired with each other
C11_Witness ==
    /\ lastCall.kind = "manageCoalitions"
    /\ CoalitionCase(lastCall.pre)
    /\ Len(lastCall.pre.teams) = 3
    /\ Len(teams) = 2
    /\ \E d \in HoldingHalf(lastCall.pre) :
           /\ lastCall.pre.teams[d].peaceUntilTick > gameTickNum
           /\ \E m \in participants \ Members(lastCall.pre.teams[d]) :
                  lastCall.pre.gameDiplomacy[m][lastCall.pre.teams[d].suzerain] = Neutral
    /\ \E i \in 1..Len(lastCall.pre.teams) : \E j \in 1..Len(lastCall.pre.teams) :
           /\ i # j
           /\ i \notin HoldingHalf(lastCall.pre)
           /\ j \notin HoldingHalf(lastCall.pre)
           /\ RGt(lastCall.pre.powerPoints[lastCall.pre.teams[j].suzerain],
                  lastCall.pre.powerPoints[lastCall.pre.teams[i].suzerain])

----------------------------------------------------------------------------
(* FfaParticipant.payTribute with the power exchange, called once on        *)
(* subordinates whose tribute is worth less than, exactly and more than     *)
(* half of what their leader is ahead.                                      *)

ExchangeSubordinatePower == 40

ExchangePowerSamples == {ExchangeSubordinatePower, initialPowerPoints}

\* the resource limit of a subordinate at the lower score
ExchangeLimit == RFloor(RAdd(RInt(vassalResourceLimit), RMul(Rat(1, 10), RInt(ExchangeSubordinatePower))))

\* half of the lead of a leader at the higher score over a subordinate at the lower one
HalfGap == (initialPowerPoints - ExchangeSubordinatePower) \div 2

\* the resources that buy n points at the exchange rate
WorthPoints(n) == (n * powerPointsExchangeRate.d) \div powerPointsExchangeRate.n

\* nothing to pay; tributes worth 1, HalfGap - 1, HalfGap and HalfGap + 1 points;
\* a tribute worth HalfGap points paid in two kinds; a tribute worth half a point
ExchangeHoldings ==
    {[Gold |-> 0, Metal |-> 0, Lumber |-> 0, FreePeople |-> 0],
     [Gold |-> ExchangeLimit + WorthPoints(1), Metal |-> 0, Lumber |-> 0, FreePeople |-> 0],
     [Gold |-> ExchangeLimit + WorthPoints(1) \div 2, Metal |-> 0, Lumber |-> 0, FreePeople |-> 0],
     [Gold |-> 0, Metal |-> ExchangeLimit + WorthPoints(HalfGap - 1), Lumber |-> 0, FreePeople |-> 0],
     [Gold |-> ExchangeLimit + WorthPoints(HalfGap), Metal |-> 0, Lumber |-> 0, FreePeople |-> 0],
     [Gold |-> ExchangeLimit + WorthPoints(HalfGap) \div 2, Metal |-> 0,
      Lumber |-> ExchangeLimit + WorthPoints(HalfGap) \div 2, FreePeople |-> 0],
     [Gold |-> 0, Metal |-> 0, Lumber |-> ExchangeLimit + WorthPoints(HalfGap + 1), FreePeople |-> 0]}

InitExchange ==
    /\ settings \in MethodSettings
    /\ \E shape \in HierarchyShapes(MaxParticipants),
          score \in [AllIds -> ExchangePowerSamples],
          payer \in AllIds,
          held \in ExchangeHoldings :
           Holds([shape EXCEPT !.powerPoints = [p \in AllIds |-> RInt(score[p])],
                               !.resources = [p \in AllIds |-> IF p = payer THEN held ELSE NoResources]])

SpecExchange == InitExchange /\ [][NextTribute]_vars

\* the worth of the resource tribute collected, and the points it buys
TributeValue == TributeTaken("Gold") + TributeTaken("Metal") + TributeTaken("Lumber")

TributePoints == RMul(RInt(TributeValue), powerPointsExchangeRate)

\* the payer's leader, and the lead of that leader over the payer, when payTribute was called
TributeLeader == lastCall.pre.suzerain[lastCall.who]

TributeGap == RSub(lastCall.pre.powerPoints[TributeLeader], lastCall.pre.powerPoints[lastCall.who])

\* a subordinate paid a non-zero resource tribute while the exchange was enabled
ExchangeCase ==
    /\ lastCall.kind = "payTribute"
    /\ settings.enablePowerPointsExchange
    /\ isVassal(lastCall.pre, lastCall.who)
    /\ TributeValue > 0

\* the payer gained t and its leader lost t; no other score moved
Transferred(t) ==
    /\ powerPoints[lastCall.who] = RAdd(lastCall.pre.powerPoints[lastCall.who], t)
    /\ powerPoints[TributeLeader] = RSub(lastCall.pre.powerPoints[TributeLeader], t)
    /\ \A p \in participants \ {lastCall.who, TributeLeader} :
           powerPoints[p] = lastCall.pre.powerPoints[p]

(* C12 as stated: with the exchange enabled, when a subordinate S pays a    *)
(* non-zero resource tribute to its leader L and the points to transfer t   *)
(* satisfy t <= (L.power - S.power) / 2, S gains t and L loses t; so for    *)
(* L = 100 and S = 40 every t with 0 < t <= 30 is transferred.              *)
C12_ExchangeUpToHalfGap ==
    (ExchangeCase /\ ~RGt(RMul(TributePoints, RInt(2)), TributeGap)) => Transferred(TributePoints)

(* C12 amended: with the exchange enabled, when a subordinate S pays a      *)
(* non-zero resource tribute to its leader L, the points t are transferred  *)
(* (S gains t, L loses t) exactly when t < (L.power - S.power) / 2; when    *)
(* t >= (L.power - S.power) / 2 no score changes.  For L = 100 and S = 40   *)
(* every t with 0 < t < 30 is transferred and t = 30 is not.                *)
C12_ExchangeBelowHalfGap ==
    ExchangeCase =>
        IF RLt(RMul(TributePoints, RInt(2)), TributeGap)
        THEN Transferred(TributePoints)
        ELSE powerPoints = lastCall.pre.powerPoints

\* a subordinate at 40 under a leader at 100 paid a tribute worth one point less than
\* half the gap and received those points
C12_Witness ==
    /\ ExchangeCase
    /\ lastCall.pre.powerPoints[lastCall.who] = RInt(ExchangeSubordinatePower)
    /\ lastCall.pre.powerPoints[TributeLeader] = RInt(initialPowerPoints)
    /\ TributePoints = RInt(HalfGap - 1)
    /\ powerPoints[lastCall.who] = RInt(ExchangeSubordinatePower + HalfGap - 1)
    /\ powerPoints[TributeLeader] = RInt(initialPowerPoints - HalfGap + 1)

----------------------------------------------------------------------------
(* Truces that outlast a cycle, on the scene of four participants: a truce  *)
(* is granted at a migration tick (the call that ends a migration), and the *)
(* truce-expiry check and the coalition check run at their offsets of the   *)
(* following cycles while truces of different ages are running.             *)

LongPeaceDurationTicks == 105

TruceCycles == 2

TruceFirstTick == FirstPhaseTick + GAME_CYCLE_PERIOD + OFFSET_MIGRATIONS

TruceLastTick ==
    TruceFirstTick + TruceCycles * GAME_CYCLE_PERIOD + (OFFSET_PEACE_TREATY_CHECK - OFFSET_MIGRATIONS)

TruceOffsets == {OFFSET_MIGRATIONS, OFFSET_PEACE_TREATY_CHECK, OFFSET_COALITION_CHECK}

TruceSettings ==
    [enableInitialPeacePeriod : {FALSE}, weakenSnowballEffect : {FALSE},
     enableTargetSystem : {FALSE}, enableCoalitionsAgainstLeader : BOOLEAN,
     enablePowerPointsExchange : {FALSE},
     temporaryPeaceDurationTicks : {temporaryPeaceDurationTicks, LongPeaceDurationTicks}]

InitTruce ==
    /\ settings \in TruceSettings
    /\ \E w \in HierarchyShapes(CoalitionScene) :
           /\ teams = w.teams
           /\ teamId = w.teamId
           /\ suzerain = w.suzerain
           /\ target = w.target
           /\ isDefeated = w.isDefeated
           /\ castleDead = w.castleDead
           /\ powerPoints = w.powerPoints
           /\ damageDealtTo = w.damageDealtTo
           /\ castleDamageDealtTo = w.castleDamageDealtTo
           /\ diplomacyCache = w.diplomacyCache
           /\ gameDiplomacy = w.gameDiplomacy
           /\ resources = w.resources
    /\ gameTickNum = TruceFirstTick
    /\ scene = CoalitionScene
    /\ participants = CoalitionIds
    /\ isGameFinished = FALSE
    /\ initialPowerPointsExchangeSetting = exchangeConfigured(settings)
    /\ powerExchangeTemporarilyDisabled = FALSE
    /\ participantPeaceUntilTick = <<>>
    /\ initialPeaceEndTick = 0
    /\ damageEvents = 0
    /\ lastCall = [kind |-> "none"]

\* the next tick at which one of the three phases is due
NextTruceStop ==
    MinOf({t \in (gameTickNum + 1)..(gameTickNum + GAME_CYCLE_PERIOD) :
               t % GAME_CYCLE_PERIOD \in TruceOffsets})

TrucePhaseAt(offset) ==
    /\ NextTruceStop <= TruceLastTick
    /\ NextTruceStop % GAME_CYCLE_PERIOD = offset

\* processTeamMigrations ends a migration with startTemporaryPeace(winnerTeam, gameTickNum);
\* the winner's hierarchy holds the participant it has just gained
TruceGranted ==
    /\ gameTickNum % GAME_CYCLE_PERIOD = OFFSET_MIGRATIONS
    /\ \E i \in 1..Len(teams) :
           /\ Len(teams[i].vassals) > 0
           /\ teams[i].peaceUntilTick # gameTickNum + settings.temporaryPeaceDurationTicks
           /\ LET s == startTemporaryPeace(World, teams[i], gameTickNum)
              IN  Commit([s.w EXCEPT !.teams = TeamsSet(@, s.t)])
           /\ lastCall' = [kind |-> "startTemporaryPeace", pre |-> World, team |-> teams[i].id]
    /\ MethodFrame

\* a migration phase in which nobody is flagged eliminated
TruceMigrations ==
    /\ TrucePhaseAt(OFFSET_MIGRATIONS)
    /\ MigrationsAt(World, NextTruceStop)
    /\ gameTickNum' = NextTruceStop
    /\ UNCHANGED <<settings, initialPowerPointsExchangeSetting,
                   powerExchangeTemporarilyDisabled, participantPeaceUntilTick, scene, participants, isGameFinished, initialPeaceEndTick, damageEvents>>

TrucePeaceTreaties ==
    /\ TrucePhaseAt(OFFSET_PEACE_TREATY_CHECK)
    /\ Commit(managePeaceTreaties(World, NextTruceStop))
    /\ lastCall' = Call("peaceTreaties", World, World, FALSE)
    /\ gameTickNum' = NextTruceStop
    /\ UNCHANGED <<settings, initialPowerPointsExchangeSetting,
                   powerExchangeTemporarilyDisabled, participantPeaceUntilTick, scene, participants, isGameFinished, initialPeaceEndTick, damageEvents>>

TruceCoalitions ==
    /\ TrucePhaseAt(OFFSET_COALITION_CHECK)
    /\ Commit(manageCoalitions(World, {}))
    /\ lastCall' = Call("coalitions", World, World, FALSE)
    /\ gameTickNum' = NextTruceStop
    /\ UNCHANGED <<settings, initialPowerPointsExchangeSetting,
                   powerExchangeTemporarilyDisabled, participantPeaceUntilTick, scene, participants, isGameFinished, initialPeaceEndTick, damageEvents>>

NextTruce == TruceGranted \/ TruceMigrations \/ TrucePeaceTreaties \/ TruceCoalitions

SpecTruce == InitTruce /\ [][NextTruce]_vars

\* the deadline of hierarchy t has passed at tick
TruceExpired(t, tick) == t.peaceUntilTick > 0 /\ tick > t.peaceUntilTick

\* every member of the registered hierarchy with this id is at War with every member
\* of every other registered hierarchy
AtWarWithOthers(id) ==
    \A i \in 1..Len(teams) :
        teams[i].id # id => AllAtWar(TeamsGet(teams, id), teams[i])

UnderTruce(t) == t.peaceUntilTick > 0

\* every member of hierarchy t is Neutral toward every participant outside it
NeutralTowardOutsiders(t) ==
    \A m \in Members(t) : \A o \in participants \ Members(t) :
        /\ getDiplomacyStatus(World, m, o) = Neutral
        /\ gameDiplomacy[m][o] = Neutral

(* C14: from the migration pass that grants a hierarchy its truce until the *)
(* hierarchy's own deadline is resolved, every member of the hierarchy is   *)
(* Neutral toward every participant outside it: neither the truce expiry   *)
(* of another hierarchy, nor a release of subordinates, nor a coalition,    *)
(* nor the end of the initial peace puts a member of a hierarchy under      *)
(* truce at War.                                                            *)
C14_TruceKeepsNeutral ==
    \A i \in 1..Len(teams) : UnderTruce(teams[i]) => NeutralTowardOutsiders(teams[i])

\* the truce-expiry check has just resolved the truce of one hierarchy while another
\* hierarchy, whose deadline lies ahead, is still under truce
C14_Witness ==
    /\ lastCall.kind = "peaceTreaties"
    /\ \E i \in 1..Len(teams) : \E j \in 1..Len(teams) :
           /\ TruceExpired(lastCall.pre.teams[i], gameTickNum)
           /\ teams[i].peaceUntilTick = 0
           /\ teams[j].peaceUntilTick > gameTickNum
           /\ lastCall.pre.gameDiplomacy[teams[j].suzerain][teams[i].suzerain] = Neutral

----------------------------------------------------------------------------
(* The dispatch of onEveryTick, tick by tick.  Only the calls are recorded: *)
(* which handler the switch selects and which handlers run inside it.  What *)
(* the handlers do to the world is the subject of the other specifications. *)

OFFSET_TRIBUTES == 11
OFFSET_GENEROSITY == 22
OFFSET_DECORATORS == 55
OFFSET_REWARDS == 77
OFFSET_BOUNTY_CHECK == 95
OFFSET_BATTLE_SUMMARY_CHECK == 98

ScheduleCycles == 2

ScheduleLastTick == FirstPhaseTick + ScheduleCycles * GAME_CYCLE_PERIOD - 1

\* TICK_OFFSET, by the handler the switch of onEveryTick calls for the entry
TICK_OFFSET ==
    [processVassalTributes |-> OFFSET_TRIBUTES,
     processSuzerainGenerosity |-> OFFSET_GENEROSITY,
     processTeamMigrations |-> OFFSET_MIGRATIONS,
     managePeaceTreaties |-> OFFSET_PEACE_TREATY_CHECK,
     updateDecorators |-> OFFSET_DECORATORS,
     promoteNewSuzerains |-> OFFSET_PROMOTIONS,
     processPowerPointRewards |-> OFFSET_REWARDS,
     checkForDefeatedParticipants |-> OFFSET_DEFEATS,
     checkForBounty |-> OFFSET_BOUNTY_CHECK,
     checkAndReassignTargets |-> OFFSET_TARGET_CHECK,
     manageCoalitions |-> OFFSET_COALITION_CHECK,
     checkBattleSummaries |-> OFFSET_BATTLE_SUMMARY_CHECK,
     checkForGameEnd |-> OFFSET_GAME_END_CHECK]

Handlers == DOMAIN TICK_OFFSET

\* the handlers of the phases the specification names
NamedHandlers == Handlers \ {"updateDecorators", "checkBattleSummaries"}

\* a plausible slip: the bounty entry calls the pairing pass as well
dispatchBountyPairs(tick) ==
    LET due == {h \in Handlers : TICK_OFFSET[h] = tick % GAME_CYCLE_PERIOD}
    IN  IF due = {} THEN <<>>
        ELSE IF "checkForBounty" \in due THEN <<"checkAndReassignTargets">>
        ELSE <<CHOOSE h \in due : TRUE>>

\* switch (gameTickNum % GAME_CYCLE_PERIOD): the handler selected, if any
dispatch(tick) ==
    LET due == {h \in Handlers : TICK_OFFSET[h] = tick % GAME_CYCLE_PERIOD}
    IN  IF due = {} THEN <<>> ELSE <<CHOOSE h \in due : TRUE>>

\* processTeamMigrations and promoteNewSuzerains end with checkAndReassignTargets when
\* anyone was flagged eliminated, respectively when a leader changed
handlerCalls(selected, changed) ==
    IF selected # <<>> /\ selected[1] \in {"processTeamMigrations", "promoteNewSuzerains"} /\ changed
    THEN selected \o <<"checkAndReassignTargets">>
    ELSE selected

\* the handlers onEveryTick(tick) runs, in order; initialize ends with the pairing pass
onEveryTickCalls(tick, changed) ==
    IF isGameFinished THEN <<>>
    ELSE IF tick = 1 THEN <<"checkAndReassignTargets">>
    ELSE IF tick < FirstPhaseTick THEN <<>>
    ELSE handlerCalls(dispatch(tick), changed)

Occurrences(s, h) == Cardinality({i \in 1..Len(s) : s[i] = h})

NoCalls == [h \in Handlers |-> 0]

InitSchedule ==
    /\ gameTickNum = 0
    /\ settings \in [enableInitialPeacePeriod : {FALSE}, weakenSnowballEffect : {FALSE},
                     enableTargetSystem : {TRUE}, enableCoalitionsAgainstLeader : {TRUE},
                     temporaryPeaceDurationTicks : {temporaryPeaceDurationTicks}]
    /\ scene = MaxParticipants
    /\ participants = {}
    /\ teams = <<>>
    /\ teamId = <<>>
    /\ suzerain = <<>>
    /\ target = <<>>
    /\ isDefeated = <<>>
    /\ castleDead = <<>>
    /\ powerPoints = <<>>
    /\ damageDealtTo = <<>>
    /\ castleDamageDealtTo = <<>>
    /\ diplomacyCache = <<>>
    /\ gameDiplomacy = <<>>
    /\ resources = <<>>
    /\ isGameFinished = FALSE
    /\ initialPowerPointsExchangeSetting = exchangeConfigured(settings)
    /\ powerExchangeTemporarilyDisabled = FALSE
    /\ participantPeaceUntilTick = <<>>
    /\ initialPeaceEndTick = 0
    /\ damageEvents = 0
    /\ lastCall = [kind |-> "onEveryTick", ran |-> <<>>, selected |-> <<>>,
                   executed |-> NoCalls, dispatched |-> NoCalls]

\* one call of onEveryTick; the counts are those of the current cycle
ScheduleTick ==
    /\ gameTickNum < ScheduleLastTick
    /\ gameTickNum' = gameTickNum + 1
    /\ \E changed \in BOOLEAN, ends \in BOOLEAN :
           LET tick == gameTickNum + 1
               ran == onEveryTickCalls(tick, changed)
               selected == IF isGameFinished \/ tick < FirstPhaseTick THEN <<>> ELSE dispatch(tick)
               executed == IF tick % GAME_CYCLE_PERIOD = 0 THEN NoCalls ELSE lastCall.executed
               dispatched == IF tick % GAME_CYCLE_PERIOD = 0 THEN NoCalls ELSE lastCall.dispatched
           IN  /\ lastCall' = [kind |-> "onEveryTick", ran |-> ran, selected |-> selected,
                               executed |-> [h \in Handlers |-> executed[h] + Occurrences(ran, h)],
                               dispatched |-> [h \in Handlers |-> dispatched[h] + Occurrences(selected, h)]]
               /\ isGameFinished' = (isGameFinished \/ (ends /\ ran = <<"checkForGameEnd">>))
    /\ UNCHANGED <<settings, initialPowerPointsExchangeSetting,
                   powerExchangeTemporarilyDisabled, participantPeaceUntilTick, scene, participants, teams, teamId, suzerain, target, isDefeated,
                   castleDead, powerPoints, damageDealtTo, castleDamageDealtTo, diplomacyCache,
                   gameDiplomacy, resources, initialPeaceEndTick, damageEvents>>

NextSchedule == ScheduleTick

SpecSchedule == InitSchedule /\ [][NextSchedule]_vars

\* no two entries of TICK_OFFSET share an offset, and every offset lies in the cycle
OffsetsDistinct ==
    /\ \A h \in Handlers : TICK_OFFSET[h] \in 0..(GAME_CYCLE_PERIOD - 1)
    /\ \A g \in Handlers : \A h \in Handlers \ {g} : TICK_OFFSET[g] # TICK_OFFSET[h]

(* C15 as stated: each named phase is bound to one offset of the 100-tick   *)
(* cycle that no other phase shares, its handler is executed at most once   *)
(* per cycle, and no phase handler runs before tick 5000.                   *)
C15_HandlerOncePerCycle ==
    lastCall.kind = "onEveryTick" =>
        /\ OffsetsDistinct
        /\ \A h \in NamedHandlers : lastCall.executed[h] <= 1
        /\ gameTickNum < FirstPhaseTick => lastCall.ran = <<>>

(* C15 amended: each named phase is bound to one offset of the 100-tick     *)
(* cycle that no other phase shares; the switch of onEveryTick selects each *)
(* phase at most once per cycle, only at its own offset and never before    *)
(* tick 5000; every handler except the rival re-pairing is executed at most *)
(* once per cycle.  The rival re-pairing is executed up to three times per  *)
(* cycle (at its own offset and at the end of the migration and promotion   *)
(* handlers) and once at tick 1, by initialize.                             *)
C15_PhaseOncePerCycle ==
    lastCall.kind = "onEveryTick" =>
        /\ OffsetsDistinct
        /\ \A h \in Handlers : lastCall.dispatched[h] <= 1
        /\ \A h \in Handlers \ {"checkAndReassignTargets"} : lastCall.executed[h] <= 1
        /\ lastCall.executed["checkAndReassignTargets"] <= 3
        /\ lastCall.selected # <<>> =>
               /\ gameTickNum >= FirstPhaseTick
               /\ TICK_OFFSET[lastCall.selected[1]] = gameTickNum % GAME_CYCLE_PERIOD
        /\ gameTickNum < FirstPhaseTick =>
               lastCall.ran = IF gameTickNum = 1 THEN <<"checkAndReassignTargets">> ELSE <<>>

\* the end of a cycle after tick 5000 in which every named phase was selected once and
\* the rival re-pairing ran three times
C15_Witness ==
    /\ lastCall.kind = "onEveryTick"
    /\ gameTickNum >= FirstPhaseTick + GAME_CYCLE_PERIOD
    /\ gameTickNum % GAME_CYCLE_PERIOD = OFFSET_GAME_END_CHECK
    /\ \A h \in NamedHandlers : lastCall.dispatched[h] = 1
    /\ lastCall.executed["checkAndReassignTargets"] = 3

----------------------------------------------------------------------------
(* One cycle of the game that starts from hierarchies formed by earlier     *)
(* captures: the phases and the damage events of the whole game, from the   *)
(* tick of a migration pass to the next migration pass.                     *)

CyclePowerSamples == {initialPowerPoints, initialPowerPoints + PromotionMargin + 1}

CycleSettings ==
    [enableInitialPeacePeriod : {FALSE}, weakenSnowballEffect : BOOLEAN,
     enableTargetSystem : {FALSE}, enableCoalitionsAgainstLeader : {TRUE},
     temporaryPeaceDurationTicks : {temporaryPeaceDurationTicks}]

InitCycle ==
    /\ settings \in CycleSettings
    /\ \E shape \in HierarchyShapes(MaxParticipants), score \in [AllIds -> CyclePowerSamples] :
           LET w == [shape EXCEPT !.powerPoints = [p \in AllIds |-> RInt(score[p])]]
           IN  /\ teams = w.teams
               /\ teamId = w.teamId
               /\ suzerain = w.suzerain
               /\ target = w.target
               /\ isDefeated = w.isDefeated
               /\ castleDead = w.castleDead
               /\ powerPoints = w.powerPoints
               /\ damageDealtTo = w.damageDealtTo
               /\ castleDamageDealtTo = w.castleDamageDealtTo
               /\ diplomacyCache = w.diplomacyCache
               /\ gameDiplomacy = w.gameDiplomacy
               /\ resources = w.resources
    /\ gameTickNum = TruceFirstTick
    /\ scene = MaxParticipants
    /\ participants = AllIds
    /\ isGameFinished = FALSE
    /\ initialPowerPointsExchangeSetting = exchangeConfigured(settings)
    /\ powerExchangeTemporarilyDisabled = FALSE
    /\ participantPeaceUntilTick = <<>>
    /\ initialPeaceEndTick = 0
    /\ damageEvents = 0
    /\ lastCall = [kind |-> "none"]

\* findWinnerFor of ModData/Scripts/AutoFFAPlugin.ts: the first participant outside
\* defeated's team with the largest positive damage credit, whatever was hit
findWinnerFor_AutoFFAPlugin(w, defeated) ==
    FoldSeq(LAMBDA acc, participant :
                IF w.teamId[participant] = w.teamId[defeated] THEN acc
                ELSE IF w.damageDealtTo[participant][defeated] > acc.maxDamage
                     THEN [winner |-> participant,
                           maxDamage |-> w.damageDealtTo[participant][defeated]]
                     ELSE acc,
            [winner |-> NoOne, maxDamage |-> 0], ParticipantSeq).winner

\* that findWinnerFor asked about a participant the elimination detection has just flagged
CallFindWinnerFor_AutoFFAPlugin ==
    /\ lastCall.kind = "defeats"
    /\ \E defeated \in participants :
           /\ isDefeated[defeated]
           /\ lastCall' = [kind |-> "findWinnerFor", variant |-> "AutoFFAPlugin.ts", pre |-> World,
                           defeated |-> defeated,
                           winner |-> findWinnerFor_AutoFFAPlugin(World, defeated)]
    /\ UNCHANGED <<gameTickNum, settings, initialPowerPointsExchangeSetting,
                   powerExchangeTemporarilyDisabled, participantPeaceUntilTick, scene, participants, teams, teamId, suzerain, target,
                   isDefeated, castleDead, powerPoints, damageDealtTo, castleDamageDealtTo,
                   diplomacyCache, gameDiplomacy, resources, isGameFinished, initialPeaceEndTick,
                   damageEvents>>

NextCycle ==
    \/ CallFindWinnerFor_AutoFFAPlugin
    \/ TickMigrations
    \/ TickPeaceTreaties
    \/ TickPromotions
    \/ TickDefeats
    \/ TickTargetCheck
    \/ TickCoalitions
    \/ TickGameEnd
    \/ UnitCauseDamage

SpecCycle == InitCycle /\ [][NextCycle]_vars

----------------------------------------------------------------------------
(* Elimination flags across migration passes, in the whole game.            *)

(* C16: a participant flagged eliminated by the elimination-detection phase *)
(* has its flag cleared, by migration or by restore in place, during the    *)
(* next migration phase while the game is not finished; no participant      *)
(* stays flagged across two consecutive migration phases.                   *)
C16_FlagClearedByNextMigration ==
    (lastCall.kind = "migrations" /\ ~isGameFinished) =>
        \A p \in participants : lastCall.pre.isDefeated[p] => ~isDefeated[p]

\* a migration pass has just handled a participant that was flagged at its start
C16_Witness ==
    /\ lastCall.kind = "migrations"
    /\ ~isGameFinished
    /\ gameTickNum % GAME_CYCLE_PERIOD = OFFSET_MIGRATIONS
    /\ \E p \in participants :
           /\ lastCall.pre.isDefeated[p]
           /\ ~isDefeated[p]
           /\ lastCall.migrated[p] + lastCall.restored[p] = 1

----------------------------------------------------------------------------
(* The pairing pass at the end of migration and promotion passes.           *)

\* some registered hierarchy has another leader in w2 than in w1
LeaderChanged(w1, w2) ==
    \E i \in 1..Len(w1.teams) : \E j \in 1..Len(w2.teams) :
        w1.teams[i].id = w2.teams[j].id /\ w1.teams[i].suzerain # w2.teams[j].suzerain

\* the state is what checkAndReassignTargets makes of w at the current tick
PairedFrom(w) ==
    \E rnd \in ShuffleAnswers(w, gameTickNum) : World = checkAndReassignTargets(w, gameTickNum, rnd)

(* C17: whenever a migration pass moves at least one participant or a       *)
(* promotion pass changes at least one leader, checkAndReassignTargets is   *)
(* run in the same tick after all membership and leadership changes of the  *)
(* pass: the state the pass leaves is the result of checkAndReassignTargets *)
(* applied to the state after the last such change.                         *)
C17_PairingFollowsChange ==
    /\ (lastCall.kind = "migrations" /\ \E p \in participants : lastCall.migrated[p] > 0) =>
           lastCall.paired /\ PairedFrom(lastCall.mid)
    /\ (lastCall.kind = "promotions" /\ LeaderChanged(lastCall.pre, lastCall.mid)) =>
           lastCall.paired /\ PairedFrom(lastCall.mid)

\* with the target system on, a migration pass has moved a participant and the pairing
\* pass that ended it has changed somebody's rival
C17_Witness ==
    /\ lastCall.kind = "migrations"
    /\ settings.enableTargetSystem
    /\ \E p \in participants : lastCall.migrated[p] > 0
    /\ \E p \in participants : target[p] # lastCall.mid.target[p]

----------------------------------------------------------------------------
(* Single eliminations: what one migration pass does for one flagged        *)
(* participant.                                                             *)

\* d is the only participant flagged eliminated in w, its hierarchy is registered and
\* findWinnerFor names a victor
SoleEliminatedWithVictor(w, d) ==
    /\ \A p \in participants : w.isDefeated[p] <=> p = d
    /\ HasTeam(w.teams, w.teamId[d])
    /\ findWinnerFor(w, d) # NoOne

\* s leads a registered hierarchy that has no subordinate, and s refers to it
LeadsAlone(s) ==
    \E i \in 1..Len(teams) :
        teams[i].suzerain = s /\ teams[i].vassals = <<>> /\ teamId[s] = teams[i].id

\* what the weaken-leader branch is to leave for the eliminated leader d of hierarchy L
WeakenedLeaderReleasesAll(pre, d) ==
    LET L == TeamsGet(pre.teams, pre.teamId[d])
    IN  /\ SubordinateInHierarchyOf(d, findWinnerFor(pre, d))
        /\ \A i \in 1..Len(teams) : teams[i].suzerain # d
        /\ \A s \in SeqToSet(L.vassals) : LeadsAlone(s)

(* C18: in the weaken-leader variant, when leader d of hierarchy L is        *)
(* eliminated and a victor exists, then after the pass d is a subordinate of *)
(* the victor's hierarchy, L is no longer in the registry, and every former  *)
(* subordinate of L is the leader of its own single-member hierarchy that is *)
(* present in the registry, whatever promotions and captures happened in L   *)
(* before.                                                                   *)
C18_WeakenedLeaderReleasesAll ==
    (lastCall.kind = "migrations" /\ settings.weakenSnowballEffect) =>
        \A d \in participants :
            (SoleEliminatedWithVictor(lastCall.pre, d) /\ isSuzerain(lastCall.pre, d))
            => WeakenedLeaderReleasesAll(lastCall.pre, d)

(* C18 for a hierarchy L that never had a promotion (its registry key is the *)
(* id of its leader d): the statement holds.                                 *)
C18_WeakenedLeaderReleasesAll_Unpromoted ==
    (lastCall.kind = "migrations" /\ settings.weakenSnowballEffect) =>
        \A d \in participants :
            (/\ SoleEliminatedWithVictor(lastCall.pre, d)
             /\ isSuzerain(lastCall.pre, d)
             /\ lastCall.pre.teamId[d] = d)
            => WeakenedLeaderReleasesAll(lastCall.pre, d)

\* a weaken-mode pass has just moved the eliminated leader of a hierarchy that had a
\* subordinate
C18_Witness ==
    /\ lastCall.kind = "migrations"
    /\ settings.weakenSnowballEffect
    /\ \E d \in participants :
           /\ SoleEliminatedWithVictor(lastCall.pre, d)
           /\ isSuzerain(lastCall.pre, d)
           /\ TeamsGet(lastCall.pre.teams, lastCall.pre.teamId[d]).vassals # <<>>
           /\ lastCall.migrated[d] = 1

----------------------------------------------------------------------------
(* The second half of a cycle with four participants: promotions, castles   *)
(* destroyed by enemies, elimination detection, the checks at the end of    *)
(* the cycle and the next migration pass.                                   *)

CaptureEvents == 2

CaptureFirstTick == FirstPhaseTick + GAME_CYCLE_PERIOD + OFFSET_PEACE_TREATY_CHECK

CaptureSettings ==
    [enableInitialPeacePeriod : {FALSE}, weakenSnowballEffect : BOOLEAN,
     enableTargetSystem : {FALSE}, enableCoalitionsAgainstLeader : BOOLEAN,
     temporaryPeaceDurationTicks : {temporaryPeaceDurationTicks}]

InitCapture ==
    /\ settings \in CaptureSettings
    /\ \E shape \in HierarchyShapes(CoalitionScene), score \in [CoalitionIds -> CyclePowerSamples] :
           LET w == [shape EXCEPT !.powerPoints = [p \in CoalitionIds |-> RInt(score[p])]]
           IN  /\ teams = w.teams
               /\ teamId = w.teamId
               /\ suzerain = w.suzerain
               /\ target = w.target
               /\ isDefeated = w.isDefeated
               /\ castleDead = w.castleDead
               /\ powerPoints = w.powerPoints
               /\ damageDealtTo = w.damageDealtTo
               /\ castleDamageDealtTo = w.castleDamageDealtTo
               /\ diplomacyCache = w.diplomacyCache
               /\ gameDiplomacy = w.gameDiplomacy
               /\ resources = w.resources
    /\ gameTickNum = CaptureFirstTick
    /\ scene = CoalitionScene
    /\ participants = CoalitionIds
    /\ isGameFinished = FALSE
    /\ initialPowerPointsExchangeSetting = exchangeConfigured(settings)
    /\ powerExchangeTemporarilyDisabled = FALSE
    /\ participantPeaceUntilTick = <<>>
    /\ initialPeaceEndTick = 0
    /\ damageEvents = 0
    /\ lastCall = [kind |-> "none"]

\* the damage event of an enemy's hit that destroys the victim's castle
CastleDestroyed ==
    /\ EventWindowOpen
    /\ damageEvents < CaptureEvents
    /\ \E attacker \in participants, victim \in participants :
           /\ attacker # victim
           /\ ~castleDead[victim]
           /\ getDiplomacyStatus(World, attacker, victim) = War
           /\ Commit([onUnitCauseDamage(World, attacker, victim, TRUE, CastleHitPoints)
                          EXCEPT !.castleDead[victim] = TRUE])
    /\ damageEvents' = damageEvents + 1
    /\ lastCall' = [kind |-> "event"]
    /\ UNCHANGED <<gameTickNum, settings, initialPowerPointsExchangeSetting,
                   powerExchangeTemporarilyDisabled, participantPeaceUntilTick, scene, participants, isGameFinished, initialPeaceEndTick>>

NextCapture ==
    \/ TickPromotions
    \/ CastleDestroyed
    \/ TickDefeats
    \/ TickTargetCheck
    \/ TickCoalitions
    \/ TickGameEnd
    \/ TickMigrations

SpecCapture == InitCapture /\ [][NextCapture]_vars

\* the members of the hierarchy registered under id in world w (none if it is not registered)
MembersOf(w, id) == IF HasTeam(w.teams, id) THEN Members(TeamsGet(w.teams, id)) ELSE {}

\* what the subordinate branch is to leave when d, a subordinate of L, goes to the victor
OnlySubordinateMoves(pre, d) ==
    LET L == TeamsGet(pre.teams, pre.teamId[d])
        V == TeamsGet(pre.teams, pre.teamId[findWinnerFor(pre, d)])
    IN  /\ HasTeam(teams, L.id)
        /\ TeamsGet(teams, L.id).suzerain = L.suzerain
        /\ TeamsGet(teams, L.id).vassals = SeqRemove(L.vassals, d)
        /\ HasTeam(teams, V.id)
        /\ TeamsGet(teams, V.id).suzerain = V.suzerain
        /\ TeamsGet(teams, V.id).vassals = Append(V.vassals, d)
        /\ teamId[d] = V.id /\ suzerain[d] = V.suzerain
        /\ \A p \in participants \ {d} : teamId[p] = pre.teamId[p] /\ suzerain[p] = pre.suzerain[p]
        /\ powerPoints[d] = RMul(pre.powerPoints[d], Rat(9, 10))
        /\ Len(teams) = Len(pre.teams)
        /\ \A i \in 1..Len(pre.teams) :
               pre.teams[i].id \notin {L.id, V.id} =>
                   /\ HasTeam(teams, pre.teams[i].id)
                   /\ TeamsGet(teams, pre.teams[i].id) = pre.teams[i]

----------------------------------------------------------------------------
(* findWinnerFor and the pass for a participant nobody defeated.            *)

\* v is what the claim says findWinnerFor answers for d in world w
TopCastleCreditor(w, d, v) ==
    LET outsiders == {o \in participants : w.teamId[o] # w.teamId[d]}
    IN  IF v = NoOne
        THEN \A o \in outsiders : w.castleDamageDealtTo[o][d] <= 0
        ELSE /\ v # d
             /\ v \in outsiders
             /\ w.castleDamageDealtTo[v][d] > 0
             /\ \A o \in outsiders : w.castleDamageDealtTo[o][d] <= w.castleDamageDealtTo[v][d]

\* the pass did nothing for d but hand it a castle (if a place was found) and clear its flag
OnlyRestored(pre, d) ==
    /\ lastCall.restored[d] = 1 /\ lastCall.migrated[d] = 0
    /\ ~isDefeated[d]
    /\ castleDead[d] => pre.castleDead[d]
    /\ teams = pre.teams
    /\ teamId = pre.teamId
    /\ suzerain = pre.suzerain
    /\ gameDiplomacy = pre.gameDiplomacy
    /\ diplomacyCache = pre.diplomacyCache
    /\ powerPoints = pre.powerPoints

(* C20 for processTeamMigrations and findWinnerFor of part_004: for every    *)
(* flagged d, findWinnerFor(d) is not d and not in d's hierarchy, its        *)
(* castle-damage credit against d is positive and maximal among the         *)
(* participants outside d's hierarchy, and it is none when no outsider has   *)
(* positive credit; a pass for a single flagged d without a victor only      *)
(* respawns d and clears its flag: hierarchy membership, diplomacy, truce    *)
(* deadlines and all power-scores are unchanged.                             *)
C20_WinnerIsTopCastleCreditor_part_004 ==
    lastCall.kind = "migrations" =>
        \A d \in participants :
            lastCall.pre.isDefeated[d] =>
                /\ TopCastleCreditor(lastCall.pre, d, findWinnerFor(lastCall.pre, d))
                /\ (/\ \A p \in participants \ {d} : ~lastCall.pre.isDefeated[p]
                    /\ HasTeam(lastCall.pre.teams, lastCall.pre.teamId[d])
                    /\ findWinnerFor(lastCall.pre, d) = NoOne)
                   => OnlyRestored(lastCall.pre, d)

(* C20: findWinnerFor(d) returns a participant that is not d and not in d's  *)
(* hierarchy, whose castle-damage credit against d is positive and maximal   *)
(* among participants outside d's hierarchy; when no outsider has positive   *)
(* credit it returns none, and processTeamMigrations then only respawns d    *)
(* and clears its flag.  Stated for findWinnerFor of both plugin sources.    *)
C20_WinnerIsTopCastleCreditor ==
    /\ C20_WinnerIsTopCastleCreditor_part_004
    /\ lastCall.kind = "findWinnerFor" =>
           TopCastleCreditor(lastCall.pre, lastCall.defeated, lastCall.winner)

\* findWinnerFor has chosen between two outsiders with different positive castle-damage credit,
\* or a pass has just restored a flagged participant that no outsider has credit against
C20_Witness ==
    \/ /\ lastCall.kind = "migrations"
       /\ \E d \in participants :
              /\ lastCall.pre.isDefeated[d]
              /\ \A p \in participants \ {d} : ~lastCall.pre.isDefeated[p]
              /\ findWinnerFor(lastCall.pre, d) = NoOne
              /\ lastCall.restored[d] = 1
    \/ /\ lastCall.kind = "findWinnerFor"
       /\ lastCall.winner # NoOne
       /\ \E o \in participants \ {lastCall.winner, lastCall.defeated} :
              /\ lastCall.pre.castleDamageDealtTo[o][lastCall.defeated] > 0
              /\ lastCall.pre.castleDamageDealtTo[o][lastCall.defeated]
                     # lastCall.pre.castleDamageDealtTo[lastCall.winner][lastCall.defeated]

----------------------------------------------------------------------------
(* Two cycles with four participants in the weaken-leader variant, rival    *)
(* pairing and coalitions switched off (their handlers return at once, so   *)
(* their offsets are not stops): promotions, castles destroyed by enemies,  *)
(* elimination detection, game-end check, migrations and truce expiry.      *)

LookupEvents == 3

LookupLastTick == FirstPhaseTick + 3 * GAME_CYCLE_PERIOD + OFFSET_MIGRATIONS

LookupOffsets == {OFFSET_MIGRATIONS, OFFSET_PEACE_TREATY_CHECK, OFFSET_PROMOTIONS,
                  OFFSET_DEFEATS, OFFSET_GAME_END_CHECK}

LookupSettings ==
    [enableInitialPeacePeriod : {FALSE}, weakenSnowballEffect : {TRUE},
     enableTargetSystem : {FALSE}, enableCoalitionsAgainstLeader : {FALSE},
     temporaryPeaceDurationTicks : {temporaryPeaceDurationTicks}]

\* hierarchies formed by earlier captures; a subordinate may have outgrown its leader
InitLookup ==
    /\ settings \in LookupSettings
    /\ \E shape \in HierarchyShapes(CoalitionScene), score \in [CoalitionIds -> CyclePowerSamples] :
           LET w == [shape EXCEPT !.powerPoints = [p \in CoalitionIds |-> RInt(score[p])]]
           IN  /\ \A p \in CoalitionIds : isSuzerain(shape, p) => score[p] = initialPowerPoints
               /\ teams = w.teams
               /\ teamId = w.teamId
               /\ suzerain = w.suzerain
               /\ target = w.target
               /\ isDefeated = w.isDefeated
               /\ castleDead = w.castleDead
               /\ powerPoints = w.powerPoints
               /\ damageDealtTo = w.damageDealtTo
               /\ castleDamageDealtTo = w.castleDamageDealtTo
               /\ diplomacyCache = w.diplomacyCache
               /\ gameDiplomacy = w.gameDiplomacy
               /\ resources = w.resources
    /\ gameTickNum = CaptureFirstTick
    /\ scene = CoalitionScene
    /\ participants = CoalitionIds
    /\ isGameFinished = FALSE
    /\ initialPowerPointsExchangeSetting = exchangeConfigured(settings)
    /\ powerExchangeTemporarilyDisabled = FALSE
    /\ participantPeaceUntilTick = <<>>
    /\ initialPeaceEndTick = 0
    /\ damageEvents = 0
    /\ lastCall = [kind |-> "none"]

NextLookupStop ==
    MinOf({t \in (gameTickNum + 1)..(gameTickNum + GAME_CYCLE_PERIOD) :
               t % GAME_CYCLE_PERIOD \in LookupOffsets})

LookupPhaseAt(offset) ==
    /\ ~isGameFinished
    /\ NextLookupStop <= LookupLastTick
    /\ NextLookupStop % GAME_CYCLE_PERIOD = offset
    /\ gameTickNum' = NextLookupStop
    /\ UNCHANGED <<settings, initialPowerPointsExchangeSetting,
                   powerExchangeTemporarilyDisabled, participantPeaceUntilTick, scene, participants, initialPeaceEndTick, damageEvents>>

LookupMigrations ==
    /\ LookupPhaseAt(OFFSET_MIGRATIONS)
    /\ MigrationsAt(World, NextLookupStop)
    /\ UNCHANGED isGameFinished

LookupPeaceTreaties ==
    /\ LookupPhaseAt(OFFSET_PEACE_TREATY_CHECK)
    /\ Commit(managePeaceTreaties(World, NextLookupStop))
    /\ lastCall' = Call("peaceTreaties", World, World, FALSE)
    /\ UNCHANGED isGameFinished

LookupPromotions ==
    /\ LookupPhaseAt(OFFSET_PROMOTIONS)
    /\ Commit(promoteNewSuzerains(World, NextLookupStop, <<>>))
    /\ lastCall' = Call("promotions", World, promotionLoop(World).w, promotionLoop(World).promotionsCount > 0)
    /\ UNCHANGED isGameFinished

LookupDefeats ==
    /\ LookupPhaseAt(OFFSET_DEFEATS)
    /\ Commit(checkForDefeatedParticipants(World))
    /\ lastCall' = Call("defeats", World, World, FALSE)
    /\ UNCHANGED isGameFinished

LookupGameEnd ==
    /\ LookupPhaseAt(OFFSET_GAME_END_CHECK)
    /\ Commit(World)
    /\ isGameFinished' = gameEnds(World)
    /\ lastCall' = Call("gameEnd", World, World, FALSE)

\* the damage event of an enemy's hit that destroys the victim's castle
LookupCastleDestroyed ==
    /\ ~isGameFinished
    /\ gameTickNum % GAME_CYCLE_PERIOD = OFFSET_PROMOTIONS
    /\ damageEvents < LookupEvents
    /\ \E attacker \in participants, victim \in participants :
           /\ attacker # victim
           /\ ~castleDead[victim]
           /\ getDiplomacyStatus(World, attacker, victim) = War
           /\ Commit([onUnitCauseDamage(World, attacker, victim, TRUE, CastleHitPoints)
                          EXCEPT !.castleDead[victim] = TRUE])
    /\ damageEvents' = damageEvents + 1
    /\ lastCall' = [kind |-> "event"]
    /\ UNCHANGED <<gameTickNum, settings, initialPowerPointsExchangeSetting,
                   powerExchangeTemporarilyDisabled, participantPeaceUntilTick, scene, participants, isGameFinished, initialPeaceEndTick>>

NextLookup ==
    \/ LookupMigrations
    \/ LookupPeaceTreaties
    \/ LookupPromotions
    \/ LookupDefeats
    \/ LookupGameEnd
    \/ LookupCastleDestroyed

SpecLookup == InitLookup /\ [][NextLookup]_vars

\* in world w the hierarchy p refers to is not registered
Unregistered(w, p) == ~HasTeam(w.teams, w.teamId[p])

\* p is exactly as it was in world pre: flag, membership, power-score, damage credit, diplomacy
UntouchedSince(pre, p) ==
    /\ isDefeated[p] = pre.isDefeated[p]
    /\ teamId[p] = pre.teamId[p]
    /\ suzerain[p] = pre.suzerain[p]
    /\ powerPoints[p] = pre.powerPoints[p]
    /\ damageDealtTo[p] = pre.damageDealtTo[p]
    /\ castleDamageDealtTo[p] = pre.castleDamageDealtTo[p]
    /\ \A q \in participants \ {p} : gameDiplomacy[p][q] = pre.gameDiplomacy[p][q]

\* d is flagged at the start of the pass and its own hierarchy, or that of its victor, is
\* not registered
LookupFails(pre, d) ==
    /\ pre.isDefeated[d]
    /\ \/ Unregistered(pre, d)
       \/ findWinnerFor(pre, d) # NoOne /\ Unregistered(pre, findWinnerFor(pre, d))

\* the loop's accumulator before its first iteration
LoopStart(w) ==
    [w |-> w, migrated |-> [p \in participants |-> 0], restored |-> [p \in participants |-> 0]]

(* C21: when the hierarchy of an eliminated participant d, or the hierarchy *)
(* of its victor, is not found in the registry, the iteration of            *)
(* processTeamMigrations for d changes nothing at all; after the pass d is  *)
(* still flagged eliminated and was neither moved nor restored; its         *)
(* membership, power-score, damage credit and diplomacy are as before the   *)
(* pass unless the pass moved another participant; and every other          *)
(* participant that was flagged has been processed (moved or restored)      *)
(* unless its own lookup fails too.                                         *)
C21_FailedLookupSkipsParticipant ==
    lastCall.kind = "migrations" =>
        \A d \in participants :
            LookupFails(lastCall.pre, d) =>
                /\ \A spawnOk \in SUBSET {d} :
                       migrateOne(LoopStart(lastCall.pre), d, gameTickNum, spawnOk) = LoopStart(lastCall.pre)
                /\ isDefeated[d]
                /\ lastCall.migrated[d] = 0 /\ lastCall.restored[d] = 0
                /\ (\A q \in participants : lastCall.migrated[q] = 0) => UntouchedSince(lastCall.pre, d)
                /\ \A q \in participants \ {d} :
                       (lastCall.pre.isDefeated[q] /\ ~LookupFails(lastCall.pre, q))
                       => lastCall.migrated[q] + lastCall.restored[q] >= 1

\* a pass has skipped a flagged participant whose hierarchy is not registered and has
\* moved another flagged participant that comes after it
C21_Witness ==
    /\ lastCall.kind = "migrations"
    /\ \E d \in participants : \E q \in participants :
           /\ d < q
           /\ LookupFails(lastCall.pre, d)
           /\ isDefeated[d]
           /\ lastCall.pre.isDefeated[q]
           /\ lastCall.migrated[q] = 1

----------------------------------------------------------------------------
(* Team.addVassal as its callers leave it: the migration pass and the       *)
(* coalition merge.                                                         *)

\* a handler that calls addVassal has just put p into another hierarchy
AddedAsVassal(p) ==
    \/ /\ lastCall.kind = "coalitions"
       /\ teamId[p] # lastCall.pre.teamId[p]
    \/ /\ lastCall.kind = "migrations"
       /\ SoleEliminatedWithVictor(lastCall.pre, p)
       /\ lastCall.migrated[p] = 1

\* p is a subordinate of the registered hierarchy it refers to, under that hierarchy's leader
ListedAsVassal(p) ==
    /\ HasTeam(teams, teamId[p])
    /\ p \in SeqToSet(TeamsGet(teams, teamId[p]).vassals)
    /\ suzerain[p] = TeamsGet(teams, teamId[p]).suzerain

(* C22: after Team.addVassal(p) returns, p is in the hierarchy's subordinate *)
(* set, p's hierarchyId is the hierarchy's id and p's leader reference is    *)
(* the hierarchy's leader; if p was flagged eliminated on entry, its castle  *)
(* has been respawned and its eliminated flag is false on return, for every  *)
(* caller including the coalition merge.                                     *)
C22_AddVassalClearsFlag ==
    \A p \in participants :
        (lastCall.kind \in {"coalitions", "migrations"} /\ AddedAsVassal(p)) =>
            /\ ListedAsVassal(p)
            /\ lastCall.pre.isDefeated[p] => (~isDefeated[p] /\ ~castleDead[p])

(* C22 without the respawn and the flag: the membership fields are set for   *)
(* every caller, and the flag is false after the migration pass, which       *)
(* clears it itself.                                                         *)
C22_AddVassalSetsMembership ==
    \A p \in participants :
        (lastCall.kind \in {"coalitions", "migrations"} /\ AddedAsVassal(p)) =>
            /\ ListedAsVassal(p)
            /\ lastCall.kind = "migrations" => ~isDefeated[p]

\* the coalition merge has just added a participant that was flagged eliminated and has
\* given it a new castle
C22_Witness ==
    /\ lastCall.kind = "coalitions"
    /\ \E p \in participants :
           /\ AddedAsVassal(p)
           /\ lastCall.pre.isDefeated[p]
           /\ ~castleDead[p]
           /\ isDefeated[p]

----------------------------------------------------------------------------
(* Alliance and hierarchy membership.                                       *)

\* the registry lists a and b in one hierarchy
SameHierarchy(a, b) == \E i \in 1..Len(teams) : a \in Members(teams[i]) /\ b \in Members(teams[i])

\* the registry lists a and b, in two different hierarchies
DifferentHierarchies(a, b) ==
    \E i \in 1..Len(teams) : \E j \in (1..Len(teams)) \ {i} :
        a \in Members(teams[i]) /\ b \in Members(teams[j])

(* C23: in every reachable state after initialization, any two distinct     *)
(* members of the same hierarchy are in Alliance, and two participants that *)
(* belong to different hierarchies are never in Alliance.                   *)
C23_AllianceIffSameHierarchy ==
    Initialized =>
        \A a \in participants : \A b \in participants \ {a} :
            /\ SameHierarchy(a, b) => getDiplomacyStatus(World, a, b) = Alliance
            /\ DifferentHierarchies(a, b) => getDiplomacyStatus(World, a, b) # Alliance

\* a migration pass has just put two participants into one hierarchy, next to a third one
\* in another hierarchy
C23_Witness ==
    /\ lastCall.kind = "migrations"
    /\ \E a \in participants : \E b \in participants \ {a} : \E c \in participants \ {a, b} :
           /\ SameHierarchy(a, b)
           /\ lastCall.pre.teamId[a] # lastCall.pre.teamId[b]
           /\ DifferentHierarchies(a, c)

----------------------------------------------------------------------------
(* FfaParticipant.givePowerPointReward.  nextRewardTime and the census       *)
(* period are the participant's and the engine's; the call takes them as     *)
(* inputs and the record of the call keeps what it made of them.             *)

MinRewardPower == 10

RewardPeriod == 1000

RewardPercentages == {Rat(1, 10), Rat(1, 4)}

RewardPowerSamples == {RInt(0), Rat(19, 2), RInt(MinRewardPower), Rat(31, 2), RInt(initialPowerPoints)}

\* createResourcesAmount(...) added to the holdings of p
rewardDeposit(w, p, percentage) ==
    LET resourceReward == RFloor(RMul(percentage, w.powerPoints[p]))
        peopleReward == RFloor(RMul(Rat(1, 50), RMul(percentage, w.powerPoints[p])))
    IN  [w EXCEPT !.resources[p] = [Gold |-> @.Gold + resourceReward,
                                    Metal |-> @.Metal + resourceReward,
                                    Lumber |-> @.Lumber + resourceReward,
                                    FreePeople |-> @.FreePeople + peopleReward]]

\* givePowerPointReward of unnamed/part_001: the threshold test comes first
givePowerPointReward_part_001(w, p, percentage, nextRewardTime, period) ==
    IF RLt(w.powerPoints[p], RInt(MinRewardPower))
    THEN [w |-> w, nextRewardTime |-> nextRewardTime, given |-> FALSE]
    ELSE [w |-> rewardDeposit(w, p, percentage), nextRewardTime |-> nextRewardTime + period,
          given |-> TRUE]

\* givePowerPointReward of ModData/Scripts/FfaParticipant.ts: nextRewardTime is advanced
\* before the threshold test
givePowerPointReward(w, p, percentage, nextRewardTime, period) ==
    IF RLt(w.powerPoints[p], RInt(MinRewardPower))
    THEN [w |-> w, nextRewardTime |-> nextRewardTime + period, given |-> FALSE]
    ELSE [w |-> rewardDeposit(w, p, percentage), nextRewardTime |-> nextRewardTime + period,
          given |-> TRUE]

InitReward ==
    /\ settings \in MethodSettings
    /\ \E shape \in HierarchyShapes(MaxParticipants),
          score \in [AllIds -> RewardPowerSamples],
          held \in HoldingSamples :
           Holds([shape EXCEPT !.powerPoints = score,
                               !.resources = [p \in AllIds |-> held]])

RewardCall(variant, p, percentage, r) ==
    [kind |-> "givePowerPointReward", variant |-> variant, who |-> p, pre |-> World,
     percentage |-> percentage, was |-> gameTickNum, nextRewardTime |-> r.nextRewardTime,
     given |-> r.given]

\* processPowerPointRewards calls it when gameTickNum >= nextRewardTime; here it is due now
CallGivePowerPointReward ==
    \E p \in AllIds, percentage \in RewardPercentages :
        /\ lastCall.kind = "none"
        /\ LET r == givePowerPointReward(World, p, percentage, gameTickNum, RewardPeriod)
           IN  /\ Commit(r.w)
               /\ lastCall' = RewardCall("FfaParticipant.ts", p, percentage, r)
        /\ MethodFrame

CallGivePowerPointReward_part_001 ==
    \E p \in AllIds, percentage \in RewardPercentages :
        /\ lastCall.kind = "none"
        /\ LET r == givePowerPointReward_part_001(World, p, percentage, gameTickNum, RewardPeriod)
           IN  /\ Commit(r.w)
               /\ lastCall' = RewardCall("part_001", p, percentage, r)
        /\ MethodFrame

NextReward == CallGivePowerPointReward \/ CallGivePowerPointReward_part_001

SpecReward == InitReward /\ [][NextReward]_vars

\* what the claim says of the call recorded in lastCall
RewardAsClaimed ==
    LET p == lastCall.who
        score == lastCall.pre.powerPoints[p]
        reward == RFloor(RMul(lastCall.percentage, score))
    IN  /\ powerPoints = lastCall.pre.powerPoints
        /\ \A q \in participants \ {p} : resources[q] = lastCall.pre.resources[q]
        /\ IF RLt(score, RInt(MinRewardPower))
           THEN /\ resources = lastCall.pre.resources
                /\ lastCall.nextRewardTime = lastCall.was
                /\ ~lastCall.given
           ELSE /\ \A kind \in {"Gold", "Metal", "Lumber"} :
                       resources[p][kind] = lastCall.pre.resources[p][kind] + reward
                /\ lastCall.nextRewardTime > lastCall.was
                /\ lastCall.given

(* C24: givePowerPointReward called with a power-score below 10 is a no-op:  *)
(* no resources are deposited, nextRewardTime is not advanced and it reports *)
(* that no reward was given; with a power-score of 10 or more it deposits    *)
(* floor(percentage x power-score) of each of gold, metal and lumber and     *)
(* advances nextRewardTime; in both cases the power-score is unchanged.      *)
(* Stated for the method of both sources.                                    *)
C24_RewardBelowThresholdIsNoOp ==
    lastCall.kind = "givePowerPointReward" => RewardAsClaimed

(* C24 for givePowerPointReward of unnamed/part_001 alone: the statement     *)
(* holds.                                                                    *)
C24_RewardBelowThresholdIsNoOp_part_001 ==
    (lastCall.kind = "givePowerPointReward" /\ lastCall.variant = "part_001") => RewardAsClaimed

\* the method of FfaParticipant.ts was called for a participant whose power-score is below
\* the threshold, and it reported that no reward was given
C24_Witness ==
    /\ lastCall.kind = "givePowerPointReward"
    /\ lastCall.variant = "FfaParticipant.ts"
    /\ RLt(lastCall.pre.powerPoints[lastCall.who], RInt(MinRewardPower))
    /\ RLt(RInt(0), lastCall.pre.powerPoints[lastCall.who])
    /\ ~lastCall.given

----------------------------------------------------------------------------
(* Team.distributeGenerosity, called once on one hierarchy of the registry.  *)

\* AutoFFASettings.suzerainGenerosityThreshold
suzerainGenerosityThreshold == 20

GenerosityKinds == {"Gold", "Metal", "Lumber"}

\* Math.max(0, suzerainRes - suzerainGenerosityThreshold), per kind
generosity(w, t) ==
    [kind \in GenerosityKinds |-> Max(0, w.resources[t.suzerain][kind] - suzerainGenerosityThreshold)]

\* Math.floor(generosity / vassals.size), per kind
sharePerVassal(w, t) ==
    [kind \in GenerosityKinds |-> generosity(w, t)[kind] \div Len(t.vassals)]

\* a plausible slip: the share is paid whatever the subordinate already holds
paymentUncapped(w, share, vassal) ==
    share

\* Math.max(0, Math.min(share, vassalResourceLimit - held)), per kind
payment(w, share, vassal) ==
    [kind \in GenerosityKinds |->
        Max(0, Min(share[kind], vassalResourceLimit - w.resources[vassal][kind]))]

\* vassal.receiveResources(payment)
received(w, vassal, pay) ==
    [w EXCEPT !.resources[vassal] =
        [kind \in ResourceKinds |-> IF kind \in GenerosityKinds THEN @[kind] + pay[kind] ELSE @[kind]]]

\* a plausible slip: the leader is credited and the subordinate's score is left as it is
generosityPointsNotDeducted(w, t, vassal, pay) ==
    LET pointsToTransfer == RMul(RInt(pay["Gold"] + pay["Metal"] + pay["Lumber"]), powerPointsExchangeRate)
        actualPointsTransferred == IF RLt(w.powerPoints[vassal], pointsToTransfer)
                                   THEN w.powerPoints[vassal] ELSE pointsToTransfer
    IN  IF settings.enablePowerPointsExchange /\ RGt(actualPointsTransferred, RZero)
        THEN [w EXCEPT !.powerPoints[t.suzerain] = RAdd(@, actualPointsTransferred)]
        ELSE w

\* the subordinate hands min(powerPoints, value x rate) points to the leader
generosityPoints(w, t, vassal, pay) ==
    LET pointsToTransfer == RMul(RInt(pay["Gold"] + pay["Metal"] + pay["Lumber"]), powerPointsExchangeRate)
        actualPointsTransferred == IF RLt(w.powerPoints[vassal], pointsToTransfer)
                                   THEN w.powerPoints[vassal] ELSE pointsToTransfer
    IN  IF settings.enablePowerPointsExchange /\ RGt(actualPointsTransferred, RZero)
        THEN [w EXCEPT !.powerPoints[vassal] = RSub(@, actualPointsTransferred),
                       !.powerPoints[t.suzerain] = RAdd(@, actualPointsTransferred)]
        ELSE w

\* one iteration of the loop over the subordinates; acc is [w, totalGiven]
giveTo(acc, t, share, vassal, exchange) ==
    LET pay == payment(acc.w, share, vassal)
    IN  IF \E kind \in GenerosityKinds : pay[kind] > 0
        THEN [w |-> IF exchange THEN generosityPoints(received(acc.w, vassal, pay), t, vassal, pay)
                    ELSE received(acc.w, vassal, pay),
              totalGiven |-> [kind \in GenerosityKinds |-> acc.totalGiven[kind] + pay[kind]]]
        ELSE acc

distributeGenerosityOf(w, t, exchange) ==
    IF Len(t.vassals) = 0 THEN [w |-> w, given |-> FALSE]
    ELSE IF \A kind \in GenerosityKinds : generosity(w, t)[kind] = 0 THEN [w |-> w, given |-> FALSE]
    ELSE IF \A kind \in GenerosityKinds : sharePerVassal(w, t)[kind] = 0 THEN [w |-> w, given |-> FALSE]
    ELSE LET share == sharePerVassal(w, t)
             done == FoldSeq(LAMBDA acc, vassal : giveTo(acc, t, share, vassal, exchange),
                             [w |-> w, totalGiven |-> [kind \in GenerosityKinds |-> 0]], t.vassals)
         IN  IF \E kind \in GenerosityKinds : done.totalGiven[kind] > 0
             \* suzerain.settlement.Resources.TakeResources(totalGiven)
             THEN [w |-> [done.w EXCEPT !.resources[t.suzerain] =
                             [kind \in ResourceKinds |->
                                 IF kind \in GenerosityKinds THEN @[kind] - done.totalGiven[kind]
                                 ELSE @[kind]]],
                   given |-> TRUE]
             ELSE [w |-> w, given |-> FALSE]

\* Team.distributeGenerosity of unnamed/part_002, with the exchange of points
distributeGenerosity(w, t) == distributeGenerosityOf(w, t, TRUE)

\* Team.distributeGenerosity of ModData/Scripts/Team.ts: resources only
distributeGenerosity_TeamTs(w, t) == distributeGenerosityOf(w, t, FALSE)

\* holdings below, at and above the threshold of the leader and the limit of a subordinate
GenerosityHoldings ==
    {NoResources,
     [Gold |-> suzerainGenerosityThreshold + 5, Metal |-> suzerainGenerosityThreshold,
      Lumber |-> suzerainGenerosityThreshold - 1, FreePeople |-> 3],
     [Gold |-> vassalResourceLimit - 1, Metal |-> vassalResourceLimit,
      Lumber |-> vassalResourceLimit + 2, FreePeople |-> 0],
     [Gold |-> suzerainGenerosityThreshold + 1, Metal |-> 2 * suzerainGenerosityThreshold + 1,
      Lumber |-> 0, FreePeople |-> 0],
     [Gold |-> 3, Metal |-> vassalResourceLimit - 3, Lumber |-> suzerainGenerosityThreshold + 2,
      FreePeople |-> 1]}

GenerosityPowerSamples == {Rat(1, 10), RInt(initialPowerPoints)}

InitGenerosity ==
    /\ settings \in MethodSettings
    /\ \E shape \in HierarchyShapes(MaxParticipants),
          score \in [AllIds -> GenerosityPowerSamples],
          held \in [AllIds -> GenerosityHoldings] :
           Holds([shape EXCEPT !.powerPoints = score, !.resources = held])

GenerosityCall(variant, id, r) ==
    [kind |-> "distributeGenerosity", variant |-> variant, team |-> id, pre |-> World,
     given |-> r.given]

CallDistributeGenerosity ==
    \E id \in AllIds :
        /\ HasTeam(teams, id)
        /\ lastCall.kind = "none"
        /\ LET r == distributeGenerosity(World, TeamsGet(teams, id))
           IN  /\ Commit(r.w)
               /\ lastCall' = GenerosityCall("part_002", id, r)
        /\ MethodFrame

CallDistributeGenerosity_TeamTs ==
    \E id \in AllIds :
        /\ HasTeam(teams, id)
        /\ lastCall.kind = "none"
        /\ LET r == distributeGenerosity_TeamTs(World, TeamsGet(teams, id))
           IN  /\ Commit(r.w)
               /\ lastCall' = GenerosityCall("Team.ts", id, r)
        /\ MethodFrame

NextGenerosity == CallDistributeGenerosity \/ CallDistributeGenerosity_TeamTs

SpecGenerosity == InitGenerosity /\ [][NextGenerosity]_vars

\* the hierarchy distributeGenerosity was called on, and what a member gained of a kind
GenerousTeam == TeamsGet(lastCall.pre.teams, lastCall.team)

Gained(p, kind) == resources[p][kind] - lastCall.pre.resources[p][kind]

GainedByVassals(kind) ==
    SeqSum([i \in 1..Len(GenerousTeam.vassals) |-> Gained(GenerousTeam.vassals[i], kind)])

GenerosityAsClaimed ==
    LET t == GenerousTeam
        surplus == generosity(lastCall.pre, t)
    IN  /\ \A kind \in GenerosityKinds :
               /\ \A v \in SeqToSet(t.vassals) :
                      /\ Gained(v, kind) >= 0
                      /\ Gained(v, kind) <= surplus[kind] \div Len(t.vassals)
                      /\ Gained(v, kind) > 0 => resources[v][kind] <= vassalResourceLimit
               /\ Gained(t.suzerain, kind) = 0 - GainedByVassals(kind)
               /\ lastCall.pre.resources[t.suzerain][kind] >= suzerainGenerosityThreshold
                      => resources[t.suzerain][kind] >= suzerainGenerosityThreshold
               /\ SeqSum([i \in 1..Len(getMembers(t)) |-> resources[getMembers(t)[i]][kind]])
                      = SeqSum([i \in 1..Len(getMembers(t)) |-> lastCall.pre.resources[getMembers(t)[i]][kind]])
        /\ \A p \in participants : Gained(p, "FreePeople") = 0
        /\ \A p \in participants \ Members(t) : resources[p] = lastCall.pre.resources[p]
        /\ (Len(t.vassals) = 0 \/ \A kind \in GenerosityKinds : surplus[kind] = 0)
               => (World = lastCall.pre /\ ~lastCall.given)

(* C25: distributeGenerosity gives each subordinate at most                  *)
(* floor(leader surplus / number of subordinates) of each resource and never *)
(* raises a subordinate's holding above the subordinate resource limit; the  *)
(* leader is debited exactly the sum deposited, so a holding of the leader   *)
(* that was at or above the generosity threshold stays there and the         *)
(* hierarchy's total of each resource is unchanged; with no subordinates or  *)
(* no surplus nothing changes.                                               *)
C25_GenerosityBounded ==
    lastCall.kind = "distributeGenerosity" => GenerosityAsClaimed

\* a leader with two subordinates gave: one subordinate received the whole share of a
\* kind, the other less than the share because of its limit
C25_Witness ==
    /\ lastCall.kind = "distributeGenerosity"
    /\ lastCall.given
    /\ Len(GenerousTeam.vassals) = 2
    /\ \E kind \in GenerosityKinds :
           LET share == generosity(lastCall.pre, GenerousTeam)[kind] \div 2
           IN  /\ share > 0
               /\ Gained(GenerousTeam.vassals[1], kind) = share
               /\ Gained(GenerousTeam.vassals[2], kind) < share
               /\ Gained(GenerousTeam.vassals[2], kind) > 0

----------------------------------------------------------------------------
(* AutoFfaPlugin.processVassalTributes: every subordinate of every           *)
(* registered hierarchy pays its tribute, in the order of the registry.      *)

processVassalTributes(w) ==
    FoldSeq(LAMBDA acc, team :
                FoldSeq(LAMBDA acc2, vassal : payTribute(acc2, vassal).w, acc, team.vassals),
            w, w.teams)

\* a subordinate far below, level with, and a little ahead of a leader at the starting score
PhasePowerSamples == {ExchangeSubordinatePower, initialPowerPoints,
                      initialPowerPoints + PromotionMargin \div 2}

\* nothing to pay, and tributes worth 1, HalfGap - 1 and HalfGap \div 2 points
PhaseHoldings ==
    {NoResources,
     [Gold |-> ExchangeLimit + WorthPoints(1), Metal |-> 0, Lumber |-> 0, FreePeople |-> 0],
     [Gold |-> 0, Metal |-> ExchangeLimit + WorthPoints(HalfGap - 1), Lumber |-> 0, FreePeople |-> 0],
     [Gold |-> 0, Metal |-> 0, Lumber |-> ExchangeLimit + WorthPoints(HalfGap \div 2), FreePeople |-> 0]}

InitPhase ==
    /\ settings \in MethodSettings
    /\ \E shape \in HierarchyShapes(MaxParticipants),
          score \in [AllIds -> PhasePowerSamples],
          held \in [AllIds -> PhaseHoldings] :
           Holds([shape EXCEPT !.powerPoints = [p \in AllIds |-> RInt(score[p])],
                               !.resources = held])

CallProcessVassalTributes ==
    /\ lastCall.kind = "none"
    /\ Commit(processVassalTributes(World))
    /\ lastCall' = [kind |-> "processVassalTributes", pre |-> World]
    /\ MethodFrame

NextPhase == CallProcessVassalTributes

SpecPhase == InitPhase /\ [][NextPhase]_vars

\* promoteNewSuzerainIfNeeded, called on the hierarchy t in the world w, would change the leader
WouldPromote(w, t) == promoteNewSuzerainIfNeeded(w, t).changed

\* some subordinate of t received points from its leader in the tribute phase
ReceivedPoints(t) ==
    \E v \in SeqToSet(t.vassals) : RGt(powerPoints[v], lastCall.pre.powerPoints[v])

(* C26: a tribute phase never causes a leadership change: for a hierarchy    *)
(* with any number of subordinates, if promoteNewSuzerainIfNeeded would not  *)
(* fire before processVassalTributes runs, it would not fire after it.       *)
C26_TributePhaseKeepsLeaders ==
    lastCall.kind = "processVassalTributes" =>
        \A i \in 1..Len(lastCall.pre.teams) :
            ~WouldPromote(lastCall.pre, lastCall.pre.teams[i]) => ~WouldPromote(World, teams[i])

(* C26 for the hierarchies with at most one subordinate: the statement holds *)
C26_TributePhaseKeepsLeaders_OneSubordinate ==
    lastCall.kind = "processVassalTributes" =>
        \A i \in 1..Len(lastCall.pre.teams) :
            (Len(lastCall.pre.teams[i].vassals) <= 1 /\ ~WouldPromote(lastCall.pre, lastCall.pre.teams[i]))
            => ~WouldPromote(World, teams[i])

\* a hierarchy with two subordinates in which no promotion was due went through a tribute
\* phase that moved points
C26_Witness ==
    /\ lastCall.kind = "processVassalTributes"
    /\ \E i \in 1..Len(lastCall.pre.teams) :
           /\ Len(lastCall.pre.teams[i].vassals) = 2
           /\ ~WouldPromote(lastCall.pre, lastCall.pre.teams[i])
           /\ ReceivedPoints(lastCall.pre.teams[i])
           /\ ~WouldPromote(World, teams[i])

----------------------------------------------------------------------------
\* payTribute changed some power-score
PointsMoved == lastCall.kind = "payTribute" /\ powerPoints # lastCall.pre.powerPoints

(* C27: whenever payTribute transfers power-score, the leader's power-score  *)
(* after the transfer is still strictly greater than the paying              *)
(* subordinate's power-score after the transfer, and the sum of the two      *)
(* power-scores is the same as before the call.                              *)
C27_LeaderStaysAhead ==
    PointsMoved =>
        /\ isVassal(lastCall.pre, lastCall.who)
        /\ RGt(powerPoints[TributeLeader], powerPoints[lastCall.who])
        /\ RAdd(powerPoints[TributeLeader], powerPoints[lastCall.who])
               = RAdd(lastCall.pre.powerPoints[TributeLeader], lastCall.pre.powerPoints[lastCall.who])

\* a subordinate paid a tribute worth half a point and received it from its leader
C27_Witness ==
    /\ PointsMoved
    /\ TributePoints = Rat(1, 2)
    /\ powerPoints[lastCall.who] = RAdd(lastCall.pre.powerPoints[lastCall.who], Rat(1, 2))
    /\ powerPoints[TributeLeader] = RSub(lastCall.pre.powerPoints[TributeLeader], Rat(1, 2))

----------------------------------------------------------------------------
(* The exchange switch of promoteNewSuzerains.  Three cycles of the tribute, *)
(* generosity and promotion phases on formed hierarchies, with the exchange  *)
(* configured on or off, and unit kills between a promotion phase and the    *)
(* next tribute phase.  x is [enabled, disabled]: settings.                  *)
(* enablePowerPointsExchange and powerExchangeTemporarilyDisabled.           *)

StabiliseEvents == 2

StabiliseLastTick == FirstPhaseTick + 3 * GAME_CYCLE_PERIOD + OFFSET_GENEROSITY

StabiliseOffsets == {OFFSET_TRIBUTES, OFFSET_GENEROSITY, OFFSET_PROMOTIONS}

StabiliseSettings ==
    [enableInitialPeacePeriod : {FALSE}, weakenSnowballEffect : {FALSE},
     enableTargetSystem : {FALSE}, enableCoalitionsAgainstLeader : {TRUE},
     enablePowerPointsExchange : BOOLEAN,
     temporaryPeaceDurationTicks : {temporaryPeaceDurationTicks}]

\* the head of promoteNewSuzerains: a suppression of the previous cycle is lifted
restoreExchange(x, initial) ==
    IF x.disabled THEN [enabled |-> initial, disabled |-> FALSE] ELSE x

\* a plausible slip: the suppression after a change of leader is left out
suppressExchangeNever(x, promotionsCount) ==
    x

\* the tail of promoteNewSuzerains: after a change of leader an enabled exchange is suppressed
suppressExchange(x, promotionsCount) ==
    IF promotionsCount > 0 /\ x.enabled THEN [enabled |-> FALSE, disabled |-> TRUE] ELSE x

processSuzerainGenerosity(w) ==
    FoldSeq(LAMBDA acc, team : distributeGenerosity(acc, team).w, w, w.teams)

\* nothing held, and a holding above the limit of a subordinate and the threshold of a leader
StabiliseHoldings ==
    {NoResources,
     [Gold |-> suzerainGenerosityThreshold + StartResourceLimit + WorthPoints(2), Metal |-> 0,
      Lumber |-> 0, FreePeople |-> 0]}

InitStabilise ==
    /\ settings \in StabiliseSettings
    /\ \E shape \in HierarchyShapes(MaxParticipants),
          score \in [AllIds -> CyclePowerSamples],
          held \in [AllIds -> StabiliseHoldings] :
           LET w == [shape EXCEPT !.powerPoints = [p \in AllIds |-> RInt(score[p])],
                                  !.resources = held]
           IN  /\ teams = w.teams
               /\ teamId = w.teamId
               /\ suzerain = w.suzerain
               /\ target = w.target
               /\ isDefeated = w.isDefeated
               /\ castleDead = w.castleDead
               /\ powerPoints = w.powerPoints
               /\ damageDealtTo = w.damageDealtTo
               /\ castleDamageDealtTo = w.castleDamageDealtTo
               /\ diplomacyCache = w.diplomacyCache
               /\ gameDiplomacy = w.gameDiplomacy
               /\ resources = w.resources
    /\ gameTickNum = FirstPhaseTick + OFFSET_PEACE_TREATY_CHECK
    /\ scene = MaxParticipants
    /\ participants = AllIds
    /\ isGameFinished = FALSE
    /\ initialPowerPointsExchangeSetting = exchangeConfigured(settings)
    /\ powerExchangeTemporarilyDisabled = FALSE
    /\ participantPeaceUntilTick = <<>>
    /\ initialPeaceEndTick = 0
    /\ damageEvents = 0
    /\ lastCall = [kind |-> "none", changes |-> 0, afterChange |-> FALSE]

NextStabiliseStop ==
    MinOf({t \in (gameTickNum + 1)..(gameTickNum + GAME_CYCLE_PERIOD) :
               t % GAME_CYCLE_PERIOD \in StabiliseOffsets})

StabilisePhaseAt(offset) ==
    /\ NextStabiliseStop <= StabiliseLastTick
    /\ NextStabiliseStop % GAME_CYCLE_PERIOD = offset
    /\ gameTickNum' = NextStabiliseStop
    /\ UNCHANGED <<initialPowerPointsExchangeSetting, participantPeaceUntilTick, scene, participants,
                   isGameFinished, initialPeaceEndTick, damageEvents>>

\* changes counts the promotion phases so far that changed a leader; afterChange tells
\* whether the latest promotion phase did
StabiliseTributes ==
    /\ StabilisePhaseAt(OFFSET_TRIBUTES)
    /\ Commit(processVassalTributes(World))
    /\ lastCall' = [kind |-> "tributes", pre |-> World, changes |-> lastCall.changes,
                    afterChange |-> lastCall.afterChange]
    /\ UNCHANGED <<settings, powerExchangeTemporarilyDisabled>>

StabiliseGenerosity ==
    /\ StabilisePhaseAt(OFFSET_GENEROSITY)
    /\ Commit(processSuzerainGenerosity(World))
    /\ lastCall' = [kind |-> "generosity", pre |-> World, changes |-> lastCall.changes,
                    afterChange |-> lastCall.afterChange]
    /\ UNCHANGED <<settings, powerExchangeTemporarilyDisabled>>

StabilisePromotions ==
    /\ StabilisePhaseAt(OFFSET_PROMOTIONS)
    /\ LET restored == restoreExchange([enabled |-> settings.enablePowerPointsExchange,
                                        disabled |-> powerExchangeTemporarilyDisabled],
                                       initialPowerPointsExchangeSetting)
           count == promotionLoop(World).promotionsCount
           x == suppressExchange(restored, count)
       IN  /\ Commit(promoteNewSuzerains(World, NextStabiliseStop, <<>>))
           /\ settings' = [settings EXCEPT !.enablePowerPointsExchange = x.enabled]
           /\ powerExchangeTemporarilyDisabled' = x.disabled
           /\ lastCall' = [kind |-> "promotions", pre |-> World, restored |-> restored.enabled,
                           changes |-> lastCall.changes + (IF count > 0 THEN 1 ELSE 0),
                           afterChange |-> count > 0]

\* a unit of the attacker kills a unit of an enemy after a promotion phase
StabiliseUnitKilled ==
    /\ gameTickNum % GAME_CYCLE_PERIOD = OFFSET_PROMOTIONS
    /\ damageEvents < StabiliseEvents
    /\ \E attacker \in participants, victim \in participants :
           /\ attacker # victim
           /\ getDiplomacyStatus(World, attacker, victim) = War
           /\ Commit(onUnitCauseDamage(World, attacker, victim, FALSE, UnitHitPoints))
    /\ damageEvents' = damageEvents + 1
    /\ lastCall' = [kind |-> "event", changes |-> lastCall.changes, afterChange |-> lastCall.afterChange]
    /\ UNCHANGED <<gameTickNum, settings, initialPowerPointsExchangeSetting,
                   powerExchangeTemporarilyDisabled, participantPeaceUntilTick, scene, participants, isGameFinished,
                   initialPeaceEndTick>>

NextStabilise ==
    \/ StabiliseTributes
    \/ StabiliseGenerosity
    \/ StabilisePromotions
    \/ StabiliseUnitKilled

SpecStabilise == InitStabilise /\ [][NextStabilise]_vars

\* a tribute or generosity phase that follows a promotion phase in which a leader changed
PhaseAfterChange ==
    lastCall.kind \in {"tributes", "generosity"} /\ lastCall.afterChange

\* the phase moved resources between a leader and a subordinate
ResourcesMoved == resources # lastCall.pre.resources

(* C28: after a promotion phase in which at least one leader changed, the    *)
(* power-score exchange is disabled during the tribute and generosity phases *)
(* of the following cycle (they move no power-score) and is set back to its  *)
(* configured value at the start of the next promotion phase; the exchange   *)
(* is never enabled when the configuration disabled it.                      *)
C28_ExchangeSuppressedForOneCycle ==
    /\ PhaseAfterChange =>
           /\ ~settings.enablePowerPointsExchange
           /\ powerPoints = lastCall.pre.powerPoints
    /\ (lastCall.kind = "promotions" /\ lastCall.afterChange) => ~settings.enablePowerPointsExchange
    /\ lastCall.kind = "promotions" => lastCall.restored = initialPowerPointsExchangeSetting
    /\ settings.enablePowerPointsExchange => initialPowerPointsExchangeSetting

\* the exchange is configured on; a leader changed in two promotion phases, and in the
\* tribute phase after the second a subordinate paid a resource tribute for no points
C28_Witness ==
    /\ PhaseAfterChange
    /\ lastCall.kind = "tributes"
    /\ lastCall.changes = 2
    /\ initialPowerPointsExchangeSetting
    /\ ResourcesMoved

----------------------------------------------------------------------------
(* checkAndReassignTargets run again and again on four participants: passes  *)
(* follow one another directly, or a truce is granted to a hierarchy, or a   *)
(* cycle goes by so that the truces run out, between two passes.             *)

PairingPasses == 4

PairingTruces == 2

PairingLastTick == CoalitionTick + GAME_CYCLE_PERIOD

PairingSettings ==
    [enableInitialPeacePeriod : {FALSE}, weakenSnowballEffect : {FALSE},
     enableTargetSystem : {TRUE}, enableCoalitionsAgainstLeader : {TRUE},
     enablePowerPointsExchange : {FALSE},
     temporaryPeaceDurationTicks : {temporaryPeaceDurationTicks}]

\* the messages assignNewTargetForTeam(team, targetTeam) adds in the world w: none when the
\* leader has that rival already or the rival is taken away, else one for every member of
\* the two teams
targetMessages(w, team, targetTeam) ==
    IF targetTeam = NoTeam \/ w.target[team.suzerain] = targetTeam.suzerain THEN 0
    ELSE getMemberCount(team) + getMemberCount(targetTeam)

RECURSIVE PairUpMessages(_, _)
PairUpMessages(w, s) ==
    IF Len(s) < 2 THEN 0
    ELSE LET teamA == s[Len(s)]
             teamB == s[Len(s) - 1]
             w1 == assignNewTargetForTeam(w, teamA, teamB)
         IN  targetMessages(w, teamA, teamB) + targetMessages(w1, teamB, teamA)
                 + PairUpMessages(assignNewTargetForTeam(w1, teamB, teamA), SubSeq(s, 1, Len(s) - 2))

\* the messages one run of checkAndReassignTargets adds
checkAndReassignTargetsMessages(w, tick, rnd) ==
    IF ~settings.enableTargetSystem THEN 0
    ELSE LET toReassign == teamsToReassign(w, tick)
             w1 == FoldSeq(LAMBDA acc, team :
                               IF team.peaceUntilTick > tick /\ acc.target[team.suzerain] # NoOne
                               THEN assignNewTargetForTeam(acc, team, NoTeam) ELSE acc,
                           w, w.teams)
             w2 == FoldSeq(LAMBDA acc, team : assignNewTargetForTeam(acc, team, NoTeam),
                           w1, toReassign)
         IN  PairUpMessages(w2, ShuffleFrom(toReassign, Len(toReassign) - 1, rnd))

InitPairing ==
    /\ settings \in PairingSettings
    /\ \E w \in HierarchyShapes(CoalitionScene) :
           /\ teams = w.teams
           /\ teamId = w.teamId
           /\ suzerain = w.suzerain
           /\ target = w.target
           /\ isDefeated = w.isDefeated
           /\ castleDead = w.castleDead
           /\ powerPoints = w.powerPoints
           /\ damageDealtTo = w.damageDealtTo
           /\ castleDamageDealtTo = w.castleDamageDealtTo
           /\ diplomacyCache = w.diplomacyCache
           /\ gameDiplomacy = w.gameDiplomacy
           /\ resources = w.resources
    /\ gameTickNum = CoalitionTick - 1
    /\ scene = CoalitionScene
    /\ participants = CoalitionIds
    /\ isGameFinished = FALSE
    /\ initialPowerPointsExchangeSetting = exchangeConfigured(settings)
    /\ powerExchangeTemporarilyDisabled = FALSE
    /\ participantPeaceUntilTick = <<>>
    /\ initialPeaceEndTick = 0
    /\ damageEvents = 0
    /\ lastCall = [kind |-> "none", passes |-> 0, truces |-> 0]

\* one run of checkAndReassignTargets; repeated tells that the run before it was the last
\* thing that happened
PairingPass ==
    /\ lastCall.passes < PairingPasses
    /\ \E rnd \in ShuffleAnswers(World, gameTickNum) :
           /\ Commit(checkAndReassignTargets(World, gameTickNum, rnd))
           /\ lastCall' = [kind |-> "pass", pre |-> World,
                           messages |-> checkAndReassignTargetsMessages(World, gameTickNum, rnd),
                           repeated |-> lastCall.kind = "pass",
                           passes |-> lastCall.passes + 1, truces |-> lastCall.truces]
    /\ MethodFrame

\* a truce is granted to one hierarchy, as the migration pass grants it to a victor
PairingTruce ==
    /\ lastCall.truces < PairingTruces
    /\ \E i \in 1..Len(teams) :
           LET s == startTemporaryPeace(World, teams[i], gameTickNum)
           IN  Commit([s.w EXCEPT !.teams = TeamsSet(@, s.t)])
    /\ lastCall' = [kind |-> "truce", passes |-> lastCall.passes, truces |-> lastCall.truces + 1]
    /\ MethodFrame

\* a cycle goes by
PairingCycle ==
    /\ gameTickNum + GAME_CYCLE_PERIOD <= PairingLastTick
    /\ gameTickNum' = gameTickNum + GAME_CYCLE_PERIOD
    /\ lastCall' = [kind |-> "cycle", passes |-> lastCall.passes, truces |-> lastCall.truces]
    /\ Commit(World)
    /\ UNCHANGED <<settings, initialPowerPointsExchangeSetting,
                   powerExchangeTemporarilyDisabled, participantPeaceUntilTick, scene, participants, isGameFinished,
                   initialPeaceEndTick, damageEvents>>

NextPairing == PairingPass \/ PairingTruce \/ PairingCycle

SpecPairing == InitPairing /\ [][NextPairing]_vars

\* the pass exempts t: its truce runs beyond this tick
ExemptByTruce(t) == t.peaceUntilTick > gameTickNum

\* the registered hierarchies outside truce whose leader has no rival
Unpaired == {i \in 1..Len(teams) : ~ExemptByTruce(teams[i]) /\ target[teams[i].suzerain] = NoOne}

\* the hierarchies the pass had to find a new rival for
NeedingRival == Len(teamsToReassign(lastCall.pre, gameTickNum))

(* C29: after every pass of checkAndReassignTargets (the rival system being  *)
(* enabled) no member of a hierarchy that is under truce has a rival, and at *)
(* most one hierarchy that is not under truce is left without a rival:       *)
(* exactly one when the number of hierarchies needing a new rival is odd,    *)
(* none when it is even.                                                     *)
C29_TruceClearedAtMostOneUnpaired ==
    lastCall.kind = "pass" =>
        /\ \A i \in 1..Len(teams) :
               ExemptByTruce(teams[i]) => \A m \in Members(teams[i]) : target[m] = NoOne
        /\ Cardinality(Unpaired) <= 1
        /\ Cardinality(Unpaired) = NeedingRival % 2

\* a pass took the rival from a hierarchy under truce, paired two hierarchies anew and left
\* a third one without a rival
C29_Witness ==
    /\ lastCall.kind = "pass"
    /\ NeedingRival = 3
    /\ Cardinality(Unpaired) = 1
    /\ \E i \in 1..Len(teams) :
           /\ ExemptByTruce(teams[i])
           /\ lastCall.pre.target[teams[i].suzerain] # NoOne
           /\ target[teams[i].suzerain] = NoOne

(* C30: running checkAndReassignTargets twice in a row with no state change  *)
(* in between is idempotent: the second run leaves every participant's       *)
(* rival-target reference unchanged and adds no message, whatever the random *)
(* shuffle returns.                                                          *)
C30_SecondPassChangesNothing ==
    (lastCall.kind = "pass" /\ lastCall.repeated) =>
        /\ target = lastCall.pre.target
        /\ lastCall.messages = 0

\* the second of two passes in a row found a pair of rivals, a hierarchy under truce and a
\* hierarchy that the first pass had left without a rival
C30_Witness ==
    /\ lastCall.kind = "pass"
    /\ lastCall.repeated
    /\ NeedingRival = 1
    /\ \E i \in 1..Len(teams) : ExemptByTruce(teams[i])
    /\ \E i \in 1..Len(teams) : \E j \in 1..Len(teams) :
           i # j /\ MutualRivals(lastCall.pre, teams[i], teams[j])

----------------------------------------------------------------------------
(* The ids of the hierarchies created for released subordinates.             *)

\* the ids new Team(vassal.id, ...) takes when the eliminated leader d of w is weakened
ReleasedIds(w, d) == SeqToSet(TeamsGet(w.teams, w.teamId[d]).vassals)

\* no released subordinate of d takes the id of a hierarchy registered in pre, and each
\* leads the hierarchy registered under its id after the pass
ReleasedIdsFresh(pre, d) ==
    \A s \in ReleasedIds(pre, d) :
        /\ ~HasTeam(pre.teams, s)
        /\ HasTeam(teams, s)
        /\ TeamsGet(teams, s).suzerain = s

(* C31: creating a hierarchy for a released subordinate (id = that           *)
(* participant's id) never reuses the id of a hierarchy that is still in the *)
(* registry, so inserting it replaces no registered hierarchy and the        *)
(* removal of the defeated hierarchy does not remove the new one.            *)
C31_ReleasedIdsFresh ==
    (lastCall.kind = "migrations" /\ settings.weakenSnowballEffect) =>
        \A d \in participants :
            (SoleEliminatedWithVictor(lastCall.pre, d) /\ isSuzerain(lastCall.pre, d))
            => ReleasedIdsFresh(lastCall.pre, d)

(* C31 for a defeated hierarchy whose id is the id of its leader (no         *)
(* promotion happened in it): the statement holds.                           *)
C31_ReleasedIdsFresh_Unpromoted ==
    (lastCall.kind = "migrations" /\ settings.weakenSnowballEffect) =>
        \A d \in participants :
            (/\ SoleEliminatedWithVictor(lastCall.pre, d)
             /\ isSuzerain(lastCall.pre, d)
             /\ lastCall.pre.teamId[d] = d)
            => ReleasedIdsFresh(lastCall.pre, d)

\* a weaken-mode pass has just moved an eliminated leader who had come to lead by promotion
\* and had a subordinate
C31_Witness ==
    /\ lastCall.kind = "migrations"
    /\ settings.weakenSnowballEffect
    /\ \E d \in participants :
           /\ SoleEliminatedWithVictor(lastCall.pre, d)
           /\ isSuzerain(lastCall.pre, d)
           /\ lastCall.pre.teamId[d] # d
           /\ ReleasedIds(lastCall.pre, d) # {}
           /\ lastCall.migrated[d] = 1

(* ------------------------------------------------------------------------ *)
(* Rival references across a cycle: four participants with the rival        *)
(* system on, from the target check of one cycle through the migrations,    *)
(* truce expiry and promotions of the next.                                 *)

RivalFirstTick == FirstPhaseTick + OFFSET_DEFEATS

RivalSettings ==
    [enableInitialPeacePeriod : {FALSE}, weakenSnowballEffect : {FALSE},
     enableTargetSystem : {TRUE}, enableCoalitionsAgainstLeader : {FALSE},
     temporaryPeaceDurationTicks : {temporaryPeaceDurationTicks}]

InitRival ==
    /\ settings \in RivalSettings
    /\ \E shape \in HierarchyShapes(CoalitionScene), score \in [CoalitionIds -> CyclePowerSamples] :
           LET w == [shape EXCEPT !.powerPoints = [p \in CoalitionIds |-> RInt(score[p])]]
           IN  /\ teams = w.teams
               /\ teamId = w.teamId
               /\ suzerain = w.suzerain
               /\ target = w.target
               /\ isDefeated = w.isDefeated
               /\ castleDead = w.castleDead
               /\ powerPoints = w.powerPoints
               /\ damageDealtTo = w.damageDealtTo
               /\ castleDamageDealtTo = w.castleDamageDealtTo
               /\ diplomacyCache = w.diplomacyCache
               /\ gameDiplomacy = w.gameDiplomacy
               /\ resources = w.resources
    /\ gameTickNum = RivalFirstTick
    /\ scene = CoalitionScene
    /\ participants = CoalitionIds
    /\ isGameFinished = FALSE
    /\ initialPowerPointsExchangeSetting = exchangeConfigured(settings)
    /\ powerExchangeTemporarilyDisabled = FALSE
    /\ participantPeaceUntilTick = <<>>
    /\ initialPeaceEndTick = 0
    /\ damageEvents = 0
    /\ lastCall = [kind |-> "none"]

NextRival ==
    \/ TickTargetCheck
    \/ TickCoalitions
    \/ TickGameEnd
    \/ TickMigrations
    \/ TickPeaceTreaties
    \/ TickPromotions
    \/ CastleDestroyed
    \/ TickDefeats

SpecRival == InitRival /\ [][NextRival]_vars

\* p is the leader of a registered hierarchy other than the one q belongs to
RivalLeaderFor(q, p) ==
    \E i \in 1..Len(teams) : teams[i].suzerain = p /\ teams[i].id # teamId[q]

(* C32 as stated: at the end of every tick a rival reference that is set    *)
(* names the current leader of a registered hierarchy other than the        *)
(* holder's own.                                                            *)
C32_TargetIsRivalLeader ==
    \A q \in participants : target[q] # NoOne => RivalLeaderFor(q, target[q])

(* C32, the part about the holder's own hierarchy: a rival reference that   *)
(* is set never names a member of the holder's hierarchy.                   *)
C32_TargetOutsideOwnHierarchy ==
    \A q \in participants : target[q] # NoOne => teamId[target[q]] # teamId[q]

\* a promotion pass has replaced the leader of a hierarchy that another hierarchy held as its rival
C32_Witness ==
    /\ lastCall.kind = "promotions"
    /\ \E q \in participants :
           LET old == lastCall.pre.target[q]
           IN  /\ old # NoOne
               /\ lastCall.pre.teamId[old] # lastCall.pre.teamId[q]
               /\ lastCall.pre.suzerain[old] = NoOne
               /\ suzerain[old] # NoOne

(* ------------------------------------------------------------------------ *)
(* Diplomatic writes concern two participants.  setDiplomacy(p, p, s) would *)
(* store s under the cache key of the pair (p, p), which nothing else       *)
(* writes: the cache is read only for an attacker and a distinct victim.    *)

\* some diplomatic write so far had the same participant as both arguments
SelfDiplomacyWritten ==
    \E k \in DOMAIN diplomacyCache : k[1] = k[2] /\ diplomacyCache[k] # NotCached

(* C33 as stated: no phase handler invokes setDiplomacy with the same       *)
(* participant as both arguments.                                           *)
C33_NoSelfDiplomacy == ~SelfDiplomacyWritten

(* C33 with the subordinates kept: while weakenSnowballEffect is off no     *)
(* subordinate is released and every diplomatic write concerns two          *)
(* distinct participants.                                                   *)
C33_NoSelfDiplomacy_Unweakened == ~settings.weakenSnowballEffect => ~SelfDiplomacyWritten

\* a migration pass has released the subordinates of a defeated leader
C33_Witness ==
    /\ lastCall.kind = "migrations"
    /\ settings.weakenSnowballEffect
    /\ \E d \in participants :
           /\ lastCall.pre.isDefeated[d]
           /\ isSuzerain(lastCall.pre, d)
           /\ ReleasedIds(lastCall.pre, d) # {}
           /\ lastCall.migrated[d] = 1

(* ------------------------------------------------------------------------ *)
(* Castle-damage credit against a participant once a migration pass has     *)
(* dealt with it.                                                           *)

\* the participants outside p's hierarchy that hold castle-damage credit against p
OutsideCreditors(p) ==
    {q \in participants : teamId[q] # teamId[p] /\ castleDamageDealtTo[q][p] > 0}

(* C34 as stated: after a migration pass has migrated or restored d, no     *)
(* participant outside d's new hierarchy holds positive castle-damage       *)
(* credit against d.                                                        *)
C34_NoOutsideCreditAfterMigration ==
    lastCall.kind = "migrations" =>
        \A d \in participants :
            (lastCall.migrated[d] > 0 \/ lastCall.restored[d] > 0) => OutsideCreditors(d) = {}

(* C34 for a restored participant: the pass restores d only when no         *)
(* participant outside its hierarchy holds castle-damage credit against it, *)
(* and the pass leaves it so.                                               *)
C34_NoOutsideCreditAfterRestoration ==
    lastCall.kind = "migrations" =>
        \A d \in participants :
            (lastCall.restored[d] > 0 /\ lastCall.migrated[d] = 0) => OutsideCreditors(d) = {}

\* a migration pass has migrated d, against whose castle two hierarchies held credit
C34_Witness ==
    /\ lastCall.kind = "migrations"
    /\ \E d \in participants :
           /\ lastCall.migrated[d] > 0
           /\ \E a \in participants, b \in participants :
                  /\ lastCall.pre.teamId[a] # lastCall.pre.teamId[b]
                  /\ lastCall.pre.teamId[a] # lastCall.pre.teamId[d]
                  /\ lastCall.pre.teamId[b] # lastCall.pre.teamId[d]
                  /\ lastCall.pre.castleDamageDealtTo[a][d] > 0
                  /\ lastCall.pre.castleDamageDealtTo[b][d] > 0

(* ------------------------------------------------------------------------ *)
(* Respawns per elimination.  A participant is flagged only while its       *)
(* castle is dead and only respawnCastle re-creates a castle, so a flagged  *)
(* participant with a castle has been respawned since it was eliminated.    *)

\* the migration pass just run has called respawnCastle for d
RespawnedByMigration(d) ==
    /\ lastCall.kind = "migrations"
    /\ lastCall.pre.isDefeated[d]
    /\ lastCall.migrated[d] > 0 \/ lastCall.restored[d] > 0

(* C35 as stated: the migration phase does not respawn a participant whose  *)
(* castle was already re-created since its elimination.                     *)
C35_RespawnedOncePerElimination ==
    \A d \in participants : RespawnedByMigration(d) => lastCall.pre.castleDead[d]

(* C35 without coalition formation: when no coalition merge precedes the    *)
(* migration phase, every participant the phase respawns enters it with a   *)
(* dead castle.                                                             *)
C35_RespawnedOncePerElimination_NoCoalitions ==
    ~settings.enableCoalitionsAgainstLeader => C35_RespawnedOncePerElimination

\* the migration pass has respawned a participant that the coalition merge had
\* already given a new castle
C35_Witness ==
    \E d \in participants :
        /\ RespawnedByMigration(d)
        /\ ~lastCall.pre.castleDead[d]
        /\ settings.enableCoalitionsAgainstLeader

(* ------------------------------------------------------------------------ *)
(* The individual-truce variant of the plugin: a newly acquired participant *)
(* gets a truce of its own, kept in participantPeaceUntilTick (a Map from   *)
(* participant id to deadline, here the sequence of its entries in          *)
(* insertion order), and the truce check ends the truces that have run out. *)

IndividualCycles == 3

IndividualLastTick ==
    FirstPhaseTick + (IndividualCycles - 1) * GAME_CYCLE_PERIOD + OFFSET_PEACE_TREATY_CHECK

IndividualSettings ==
    [enableInitialPeacePeriod : {FALSE}, weakenSnowballEffect : {FALSE},
     enableTargetSystem : {FALSE}, enableCoalitionsAgainstLeader : {FALSE},
     temporaryPeaceDurationTicks : {temporaryPeaceDurationTicks, LongPeaceDurationTicks}]

PeaceHas(table, id) == \E i \in 1..Len(table) : table[i].id = id

PeaceGet(table, id) == table[CHOOSE i \in 1..Len(table) : table[i].id = id].until

\* Map.set: an existing key keeps its place, a new key goes last
PeaceSet(table, id, until) ==
    IF PeaceHas(table, id)
    THEN [i \in 1..Len(table) |-> IF table[i].id = id THEN [id |-> id, until |-> until] ELSE table[i]]
    ELSE Append(table, [id |-> id, until |-> until])

PeaceDelete(table, id) == SelectSeq(table, LAMBDA e : e.id # id)

PeaceKeys(table) == [i \in 1..Len(table) |-> table[i].id]

\* x is the pair of the world w and the truce table
startTemporaryPeaceForParticipants(x, protectedOnes, tick) ==
    FoldSeq(LAMBDA acc, protectedParticipant :
                [w |-> FoldSeq(LAMBDA w1, otherParticipant :
                                   IF protectedParticipant # otherParticipant
                                   THEN IF w1.teamId[protectedParticipant] = w1.teamId[otherParticipant]
                                        THEN setDiplomacy(w1, protectedParticipant, otherParticipant, Alliance)
                                        ELSE setDiplomacy(w1, protectedParticipant, otherParticipant, Neutral)
                                   ELSE w1,
                               acc.w, ParticipantSeq),
                 table |-> PeaceSet(acc.table, protectedParticipant,
                                    tick + settings.temporaryPeaceDurationTicks)],
            x, protectedOnes)

\* the loop over allOtherParticipants once participant's truce has run out
restoreDiplomacy(w, table, participant) ==
    FoldSeq(LAMBDA w1, other :
                IF other = participant \/ PeaceHas(table, other) THEN w1
                ELSE IF w1.teamId[other] = w1.teamId[participant]
                     THEN setDiplomacy(w1, participant, other, Alliance)
                     ELSE setDiplomacy(w1, participant, other, War),
            w, ParticipantSeq)

\* the entries are removed only after the loop, so the table is the same for every iteration
manageParticipantPeaceTreaties(x, tick) ==
    IF Len(x.table) = 0 THEN x
    ELSE LET loop == FoldSeq(LAMBDA acc, participantId :
                                 IF tick > PeaceGet(x.table, participantId)
                                 THEN IF acc.w.isDefeated[participantId]
                                         \/ ~HasTeam(acc.w.teams, acc.w.teamId[participantId])
                                      THEN [acc EXCEPT !.expired = Append(@, participantId)]
                                      ELSE [w |-> restoreDiplomacy(acc.w, x.table, participantId),
                                            expired |-> Append(acc.expired, participantId)]
                                 ELSE acc,
                             [w |-> x.w, expired |-> <<>>], PeaceKeys(x.table))
         IN  [w |-> loop.w,
              table |-> FoldSeq(LAMBDA t, id : PeaceDelete(t, id), x.table, loop.expired)]

\* two hierarchies of a leader and a subordinate each, besides the shapes with one hierarchy
IndividualShapes(n) ==
    HierarchyShapes(n)
    \cup UNION {{JoinAs(JoinAs(WarOfAll(n), x[1], x[2]), y[1], y[2]) :
                     y \in {z \in LeaderAndVassal(n) : {z[1], z[2]} \cap {x[1], x[2]} = {}}} :
                x \in LeaderAndVassal(n)}

InitIndividual ==
    /\ settings \in IndividualSettings
    /\ \E w \in IndividualShapes(CoalitionScene) :
           /\ teams = w.teams
           /\ teamId = w.teamId
           /\ suzerain = w.suzerain
           /\ target = w.target
           /\ isDefeated = w.isDefeated
           /\ castleDead = w.castleDead
           /\ powerPoints = w.powerPoints
           /\ damageDealtTo = w.damageDealtTo
           /\ castleDamageDealtTo = w.castleDamageDealtTo
           /\ diplomacyCache = w.diplomacyCache
           /\ gameDiplomacy = w.gameDiplomacy
           /\ resources = w.resources
    /\ gameTickNum = FirstPhaseTick
    /\ scene = CoalitionScene
    /\ participants = CoalitionIds
    /\ isGameFinished = FALSE
    /\ initialPowerPointsExchangeSetting = exchangeConfigured(settings)
    /\ powerExchangeTemporarilyDisabled = FALSE
    /\ participantPeaceUntilTick = <<>>
    /\ initialPeaceEndTick = 0
    /\ damageEvents = 0
    /\ lastCall = [kind |-> "none", lapsed |-> {}]

NextIndividualStop ==
    LET offset == gameTickNum % GAME_CYCLE_PERIOD
        cycle == gameTickNum - offset
    IN  IF offset < OFFSET_MIGRATIONS THEN cycle + OFFSET_MIGRATIONS
        ELSE IF offset < OFFSET_PEACE_TREATY_CHECK THEN cycle + OFFSET_PEACE_TREATY_CHECK
        ELSE cycle + GAME_CYCLE_PERIOD + OFFSET_MIGRATIONS

IndividualPhaseAt(offset) ==
    /\ NextIndividualStop <= IndividualLastTick
    /\ NextIndividualStop % GAME_CYCLE_PERIOD = offset
    /\ gameTickNum' = NextIndividualStop
    /\ UNCHANGED <<settings, initialPowerPointsExchangeSetting, powerExchangeTemporarilyDisabled,
                   scene, participants, isGameFinished, initialPeaceEndTick, damageEvents>>

\* the end of the iterations of the migration pass: each newly acquired subordinate of
\* this pass gets its truce; lapsed is the set of participants whose truce has run out
\* and has been removed since it was last granted
IndividualTruce ==
    /\ IndividualPhaseAt(OFFSET_MIGRATIONS)
    /\ \E acquired \in SUBSET {p \in participants : suzerain[p] # NoOne} :
           LET x == FoldSeq(LAMBDA acc, p :
                                IF p \in acquired
                                THEN startTemporaryPeaceForParticipants(acc, <<p>>, NextIndividualStop)
                                ELSE acc,
                            [w |-> World, table |-> participantPeaceUntilTick], ParticipantSeq)
           IN  /\ Commit(x.w)
               /\ participantPeaceUntilTick' = x.table
               /\ lastCall' = [kind |-> "individualTruce", lapsed |-> lastCall.lapsed \ acquired]

\* the truce check of the variant: the hierarchies' truces, then the participants' truces
IndividualPeaceCheck ==
    /\ IndividualPhaseAt(OFFSET_PEACE_TREATY_CHECK)
    /\ LET pre == [w |-> managePeaceTreaties(World, NextIndividualStop),
                   table |-> participantPeaceUntilTick]
           x == manageParticipantPeaceTreaties(pre, NextIndividualStop)
           removed == SeqToSet(PeaceKeys(pre.table)) \ SeqToSet(PeaceKeys(x.table))
       IN  /\ Commit(x.w)
           /\ participantPeaceUntilTick' = x.table
           /\ lastCall' = [kind |-> "participantPeace", lapsed |-> lastCall.lapsed \cup removed,
                           before |-> lastCall.lapsed, removed |-> removed]

NextIndividual ==
    \/ IndividualTruce
    \/ IndividualPeaceCheck

SpecIndividual == InitIndividual /\ [][NextIndividual]_vars

(* C36 as stated: once the truces of two participants of different          *)
(* hierarchies have both run out and been removed from the table, the two   *)
(* are at War, also when both run out in the same pass.                     *)
C36_LapsedTrucesMeanWar ==
    \A p \in lastCall.lapsed : \A q \in lastCall.lapsed :
        teamId[p] # teamId[q] => getDiplomacyStatus(World, p, q) = War

(* C36 for truces that run out in different passes: when a pass removes the *)
(* truce of p and the truce of q had been removed by an earlier pass, p and *)
(* q of different hierarchies are at War after the pass.                    *)
C36_LapsedTrucesMeanWar_SeparatePasses ==
    lastCall.kind = "participantPeace" =>
        \A p \in lastCall.removed : \A q \in lastCall.before \ lastCall.removed :
            teamId[p] # teamId[q] => getDiplomacyStatus(World, p, q) = War

\* a pass has removed the truces of two participants of different hierarchies
C36_Witness ==
    /\ lastCall.kind = "participantPeace"
    /\ \E p \in lastCall.removed : \E q \in lastCall.removed : teamId[p] # teamId[q]

\* a pass has removed the truce of p while q's truce had been removed by an earlier pass
C36_Witness_SeparatePasses ==
    /\ lastCall.kind = "participantPeace"
    /\ \E p \in lastCall.removed : \E q \in lastCall.before \ lastCall.removed : teamId[p] # teamId[q]

(* ------------------------------------------------------------------------ *)
(* The end of the game: the phases of the whole game from hierarchies       *)
(* formed by the first migration pass, the game-end check, and the ticks    *)
(* that follow it.                                                          *)

EndFirstTick == FirstPhaseTick + OFFSET_PEACE_TREATY_CHECK

EndSettings ==
    [enableInitialPeacePeriod : {FALSE}, weakenSnowballEffect : BOOLEAN,
     enableTargetSystem : BOOLEAN, enableCoalitionsAgainstLeader : {FALSE},
     temporaryPeaceDurationTicks : {temporaryPeaceDurationTicks}]

\* a plausible slip: only the leader of the surviving hierarchy is given the victory
forcedVictoryLeaderOnly(w) == {w.teams[1].suzerain}

\* the participants for which checkForGameEnd calls ForceVictory: winnerTeam is the
\* first value of the registry
forcedVictory(w) == {p \in participants : w.teamId[p] = w.teams[1].id}

\* the participants for which checkForGameEnd calls ForceTotalDefeat
forcedDefeat(w) == participants \ forcedVictory(w)

InitEnd ==
    /\ settings \in EndSettings
    /\ \E w \in HierarchyShapes(MaxParticipants) :
           /\ teams = w.teams
           /\ teamId = w.teamId
           /\ suzerain = w.suzerain
           /\ target = w.target
           /\ isDefeated = w.isDefeated
           /\ castleDead = w.castleDead
           /\ powerPoints = w.powerPoints
           /\ damageDealtTo = w.damageDealtTo
           /\ castleDamageDealtTo = w.castleDamageDealtTo
           /\ diplomacyCache = w.diplomacyCache
           /\ gameDiplomacy = w.gameDiplomacy
           /\ resources = w.resources
    /\ gameTickNum = EndFirstTick
    /\ scene = MaxParticipants
    /\ participants = AllIds
    /\ isGameFinished = FALSE
    /\ initialPowerPointsExchangeSetting = exchangeConfigured(settings)
    /\ powerExchangeTemporarilyDisabled = FALSE
    /\ participantPeaceUntilTick = <<>>
    /\ initialPeaceEndTick = 0
    /\ damageEvents = 0
    /\ lastCall = [kind |-> "none"]

\* onEveryTick once the game is finished: it returns before anything else
TickFinished ==
    /\ isGameFinished
    /\ gameTickNum >= 1
    /\ NextStop <= MaxTick
    /\ gameTickNum' = NextStop
    /\ lastCall' = [kind |-> "finished", pre |-> World]
    /\ UNCHANGED <<settings, initialPowerPointsExchangeSetting, powerExchangeTemporarilyDisabled,
                   participantPeaceUntilTick, scene, participants, teams, teamId, suzerain, target,
                   isDefeated, castleDead, powerPoints, damageDealtTo, castleDamageDealtTo,
                   diplomacyCache, gameDiplomacy, isGameFinished, initialPeaceEndTick,
                   resources, damageEvents>>

NextEnd ==
    \/ TickMigrations
    \/ TickPeaceTreaties
    \/ TickPromotions
    \/ TickDefeats
    \/ TickTargetCheck
    \/ TickCoalitions
    \/ TickGameEnd
    \/ TickFinished
    \/ UnitCauseDamage

SpecEnd == InitEnd /\ [][NextEnd]_vars

\* what the diplomatic relation of every two participants is
Relations == [k \in {x \in participants \X participants : x[1] # x[2]} |->
                  getDiplomacyStatus(World, k[1], k[2])]

\* the step leaves the hierarchies, their truce deadlines and the diplomacy as they are
HierarchiesUntouched ==
    /\ teams' = teams
    /\ teamId' = teamId
    /\ suzerain' = suzerain
    /\ Relations' = Relations

\* the game-end check of this step has observed a single remaining hierarchy
GameEndObserved ==
    /\ ~isGameFinished
    /\ isGameFinished'
    /\ lastCall'.kind = "gameEnd"

(* C37: once checkForGameEnd has observed a single remaining hierarchy the  *)
(* finished flag stays true, no later tick runs a phase handler or changes  *)
(* hierarchy membership, diplomacy or truce deadlines; at that moment one   *)
(* hierarchy is registered, victory is forced for exactly the participants  *)
(* whose hierarchyId is its id and defeat for all others; the registry is   *)
(* never empty.                                                             *)
C37_FinishedGameStaysFinished ==
    /\ [](Len(teams) >= 1)
    /\ [][/\ isGameFinished =>
                 /\ isGameFinished'
                 /\ HierarchiesUntouched
                 /\ lastCall'.kind \in {"finished", "event"}
          /\ GameEndObserved =>
                 /\ Len(teams') = 1
                 /\ forcedVictory(lastCall'.pre) = {p \in participants : teamId'[p] = teams'[1].id}
                 /\ forcedDefeat(lastCall'.pre) = {p \in participants : teamId'[p] # teams'[1].id}]_vars

\* a tick has passed after the end of a game won by a hierarchy with a subordinate
C37_Witness ==
    /\ isGameFinished
    /\ lastCall.kind = "finished"
    /\ Len(teams) = 1
    /\ teams[1].vassals # <<>>

(* ------------------------------------------------------------------------ *)
(* The start of the game in the variant with the challenge system: the      *)
(* participants whose names mark them as challengers form one hierarchy and *)
(* all the others a second one.                                             *)

ChallengeSettings ==
    [enableInitialPeacePeriod : BOOLEAN, isChallengeSystemEnabled : BOOLEAN,
     weakenSnowballEffect : {FALSE}, enableTargetSystem : {FALSE},
     enableCoalitionsAgainstLeader : {FALSE},
     temporaryPeaceDurationTicks : {temporaryPeaceDurationTicks}]

\* sorted.sort((a, b) => b.powerPoints - a.powerPoints)[0]: the first of the highest scores
firstByPower(w, ps) ==
    LET best == {i \in 1..Len(ps) :
                     /\ \A j \in 1..Len(ps) : ~RGt(w.powerPoints[ps[j]], w.powerPoints[ps[i]])
                     /\ \A j \in 1..(i - 1) : RGt(w.powerPoints[ps[j]], w.powerPoints[ps[i]])
                                                  \/ RLt(w.powerPoints[ps[j]], w.powerPoints[ps[i]])}
    IN  ps[MinOf(best)]

\* step 5: War between every member of the one hierarchy and every member of the other
setWarBetweenTeams(w, teamA, teamB) ==
    FoldSeq(LAMBDA acc, member1 :
                FoldSeq(LAMBDA acc2, member2 : setDiplomacy(acc2, member1, member2, War),
                        acc, getMembers(teamB)),
            w, getMembers(teamA))

\* steps 1 to 4: every participant but the two new leaders joins one of the two hierarchies
\* and its own hierarchy is removed from the registry
moveIntoTwoHierarchies(w, n, challengerSet) ==
    LET all == IdSeq(0, n - 1)
        challengers == SelectSeq(all, LAMBDA p : p \in challengerSet)
        others == SelectSeq(all, LAMBDA p : p \notin challengerSet)
    IN  IF challengers = <<>> \/ others = <<>> THEN w
        ELSE LET challengerSuzerain == firstByPower(w, challengers)
                 otherSuzerain == firstByPower(w, others)
             IN  FoldSeq(LAMBDA acc, participant :
                             LET targetId == IF participant \in challengerSet
                                             THEN challengerSuzerain ELSE otherSuzerain
                                 oldTeamId == acc.teamId[participant]
                                 a == addVassal(acc, TeamsGet(acc.teams, targetId), participant, {})
                             IN  [a.w EXCEPT !.teams = TeamsDelete(TeamsSet(@, a.t), oldTeamId)],
                         w, SelectSeq(all, LAMBDA p : p # challengerSuzerain /\ p # otherSuzerain))

applyChallengeSystemBalance(w, n, challengerSet) ==
    LET all == IdSeq(0, n - 1)
        challengers == SelectSeq(all, LAMBDA p : p \in challengerSet)
        others == SelectSeq(all, LAMBDA p : p \notin challengerSet)
    IN  IF challengers = <<>> \/ others = <<>> THEN w
        ELSE IF ~HasTeam(w.teams, firstByPower(w, challengers))
                \/ ~HasTeam(w.teams, firstByPower(w, others)) THEN w
        ELSE LET moved == moveIntoTwoHierarchies(w, n, challengerSet)
             IN  setWarBetweenTeams(moved, TeamsGet(moved.teams, firstByPower(w, challengers)),
                                    TeamsGet(moved.teams, firstByPower(w, others)))

InitChallenge ==
    /\ gameTickNum = 0
    /\ settings \in ChallengeSettings
    /\ scene = MaxParticipants
    /\ participants = {}
    /\ teams = <<>>
    /\ teamId = <<>>
    /\ suzerain = <<>>
    /\ target = <<>>
    /\ isDefeated = <<>>
    /\ castleDead = <<>>
    /\ powerPoints = <<>>
    /\ damageDealtTo = <<>>
    /\ castleDamageDealtTo = <<>>
    /\ diplomacyCache = <<>>
    /\ gameDiplomacy = <<>>
    /\ resources = <<>>
    /\ isGameFinished = FALSE
    /\ initialPowerPointsExchangeSetting = exchangeConfigured(settings)
    /\ powerExchangeTemporarilyDisabled = FALSE
    /\ participantPeaceUntilTick = <<>>
    /\ initialPeaceEndTick = 0
    /\ damageEvents = 0
    /\ lastCall = [kind |-> "none"]

\* initialize of the variant; challengerSet is the set of participants with a challenger's name
ChallengeInitialize ==
    /\ ~isGameFinished
    /\ gameTickNum = 0
    /\ \E challengerSet \in SUBSET (0..(scene - 1)) :
           LET w0 == setInitialDiplomacy(setupParticipantsAndTeams(scene), IdSeq(0, scene - 1))
               w1 == checkAndReassignTargets(w0, 1, <<>>)
               w2 == IF settings.isChallengeSystemEnabled
                     THEN checkAndReassignTargets(applyChallengeSystemBalance(w1, scene, challengerSet),
                                                  1, <<>>)
                     ELSE w1
           IN  /\ Commit(w2)
               /\ lastCall' = [kind |-> "initialize", pre |-> w0, mid |-> w1, paired |-> TRUE,
                               challengers |-> challengerSet]
    /\ gameTickNum' = 1
    /\ participants' = 0..(scene - 1)
    /\ initialPeaceEndTick' = IF settings.enableInitialPeacePeriod THEN initialPeaceDurationTicks ELSE 0
    /\ UNCHANGED <<settings, initialPowerPointsExchangeSetting, powerExchangeTemporarilyDisabled,
                   participantPeaceUntilTick, scene, isGameFinished, damageEvents>>

NextChallenge ==
    \/ ChallengeInitialize
    \/ TickEndInitialPeace
    \/ UnitCauseDamage

SpecChallenge == InitChallenge /\ [][NextChallenge]_vars

\* the initial peace period is enabled and has not ended
InitialPeaceLasts == gameTickNum >= 1 /\ initialPeaceEndTick > 0

\* nothing has been credited to anyone yet
NothingCredited ==
    \A p \in participants :
        /\ powerPoints[p] = RInt(initialPowerPoints)
        /\ \A q \in participants : damageDealtTo[p][q] = 0 /\ castleDamageDealtTo[p][q] = 0

\* every two participants of different hierarchies are in the relation status
BetweenHierarchies(status) ==
    \A p \in participants : \A q \in participants :
        teamId[p] # teamId[q] => getDiplomacyStatus(World, p, q) = status

(* C38 as stated: while the initial peace period is enabled and has not     *)
(* ended, every two participants of different hierarchies are Neutral and   *)
(* no damage event has credited anything; the period ends at the first tick *)
(* at or past its end tick, once, by setting every two participants of      *)
(* different hierarchies to War.                                            *)
C38_InitialPeaceIsNeutral ==
    /\ InitialPeaceLasts => (BetweenHierarchies(Neutral) /\ NothingCredited)
    /\ lastCall.kind = "endInitialPeace" =>
           /\ gameTickNum = initialPeaceDurationTicks
           /\ initialPeaceEndTick = 0
           /\ BetweenHierarchies(War)

(* C38 without the challenge system: the statement holds when the challenge *)
(* system is off.                                                           *)
C38_InitialPeaceIsNeutral_NoChallenge ==
    ~settings.isChallengeSystemEnabled => C38_InitialPeaceIsNeutral

\* the challenge system has formed two hierarchies at the start of an initial peace period
\* and a damage event has been delivered
C38_Witness ==
    /\ InitialPeaceLasts
    /\ settings.isChallengeSystemEnabled
    /\ Len(teams) = 2
    /\ damageEvents > 0

\* the initial peace period has just ended between more than one hierarchy
C38_Witness_NoChallenge ==
    /\ lastCall.kind = "endInitialPeace"
    /\ ~settings.isChallengeSystemEnabled
    /\ damageEvents > 0

(* ------------------------------------------------------------------------ *)
(* Power-scores through the phases that move them: damage credit for        *)
(* destroyed castles, elimination detection, tribute, generosity and the    *)
(* spoils of the migration pass.                                            *)

ScoreFirstTick == FirstPhaseTick + OFFSET_PROMOTIONS

ScoreLastTick == FirstPhaseTick + GAME_CYCLE_PERIOD + OFFSET_MIGRATIONS

ScoreOffsets == {OFFSET_DEFEATS, OFFSET_TRIBUTES, OFFSET_GENEROSITY, OFFSET_MIGRATIONS}

ScoreSettings ==
    [enableInitialPeacePeriod : {FALSE}, weakenSnowballEffect : {FALSE},
     enableTargetSystem : {FALSE}, enableCoalitionsAgainstLeader : {FALSE},
     enablePowerPointsExchange : BOOLEAN,
     temporaryPeaceDurationTicks : {temporaryPeaceDurationTicks}]

InitScore ==
    /\ settings \in ScoreSettings
    /\ \E shape \in HierarchyShapes(MaxParticipants),
          score \in [AllIds -> CyclePowerSamples],
          held \in [AllIds -> StabiliseHoldings] :
           LET w == [shape EXCEPT !.powerPoints = [p \in AllIds |-> RInt(score[p])],
                                  !.resources = held]
           IN  /\ teams = w.teams
               /\ teamId = w.teamId
               /\ suzerain = w.suzerain
               /\ target = w.target
               /\ isDefeated = w.isDefeated
               /\ castleDead = w.castleDead
               /\ powerPoints = w.powerPoints
               /\ damageDealtTo = w.damageDealtTo
               /\ castleDamageDealtTo = w.castleDamageDealtTo
               /\ diplomacyCache = w.diplomacyCache
               /\ gameDiplomacy = w.gameDiplomacy
               /\ resources = w.resources
    /\ gameTickNum = ScoreFirstTick
    /\ scene = MaxParticipants
    /\ participants = AllIds
    /\ isGameFinished = FALSE
    /\ initialPowerPointsExchangeSetting = exchangeConfigured(settings)
    /\ powerExchangeTemporarilyDisabled = FALSE
    /\ participantPeaceUntilTick = <<>>
    /\ initialPeaceEndTick = 0
    /\ damageEvents = 0
    /\ lastCall = [kind |-> "none"]

NextScoreStop ==
    MinOf({t \in (gameTickNum + 1)..(gameTickNum + GAME_CYCLE_PERIOD) :
               t % GAME_CYCLE_PERIOD \in ScoreOffsets})

ScorePhaseAt(offset) ==
    /\ NextScoreStop <= ScoreLastTick
    /\ NextScoreStop % GAME_CYCLE_PERIOD = offset
    /\ gameTickNum' = NextScoreStop
    /\ UNCHANGED <<settings, initialPowerPointsExchangeSetting, powerExchangeTemporarilyDisabled,
                   participantPeaceUntilTick, scene, participants, isGameFinished,
                   initialPeaceEndTick, damageEvents>>

ScoreDefeats ==
    /\ ScorePhaseAt(OFFSET_DEFEATS)
    /\ Commit(checkForDefeatedParticipants(World))
    /\ lastCall' = [kind |-> "defeats", pre |-> World]

ScoreTributes ==
    /\ ScorePhaseAt(OFFSET_TRIBUTES)
    /\ Commit(processVassalTributes(World))
    /\ lastCall' = [kind |-> "tributes", pre |-> World]

ScoreGenerosity ==
    /\ ScorePhaseAt(OFFSET_GENEROSITY)
    /\ Commit(processSuzerainGenerosity(World))
    /\ lastCall' = [kind |-> "generosity", pre |-> World]

ScoreMigrations ==
    /\ ScorePhaseAt(OFFSET_MIGRATIONS)
    /\ \E spawnOk \in SUBSET {p \in participants : isDefeated[p]} :
           Commit(processTeamMigrations(World, NextScoreStop, spawnOk, <<>>))
    /\ lastCall' = [kind |-> "spoils", pre |-> World]

NextScore ==
    \/ CastleDestroyed
    \/ ScoreDefeats
    \/ ScoreTributes
    \/ ScoreGenerosity
    \/ ScoreMigrations

SpecScore == InitScore /\ [][NextScore]_vars

\* the sum of the power-scores that the members of hierarchy t have in world w
TeamPower(w, t) == FoldSeq(LAMBDA acc, member : RAdd(acc, w.powerPoints[member]), RZero, getMembers(t))

====
